---- MODULE Spec2Model ----
(***************************************************************************)
(* Model of the Canvas data aggregator (src/index.js): the paginated       *)
(* fetcher fetchAllPages and the /api/all-data aggregation handler.        *)
(***************************************************************************)
EXTENDS Integers, Sequences, FiniteSets, TLC

\* ------------------------------------------------------------------ bounds
\* Pages for which the upstream answers freely; after that it only keeps
\* serving full pages with a next link (a runaway upstream).
MaxChain == 2
\* Largest number of items on one page.
MaxItems == 2
\* Largest explicit maxPages option tried (besides the default).
MaxPagesOpt == 2

\* Largest number of courses the upstream lists.
MaxCourses == 2
\* Largest number of assignments of a course.
MaxAssignments == 2

\* Default of the maxPages option.
DefaultMaxPages == 10

\* Longest merged assignment list sorted on its own.
MaxList == 3
\* Latest due date (dates are counted as time values 1..MaxDate).
MaxDate == 3

\* Latest value the clock reaches while one fetch is timed.
MaxClock == 2

\* Most whole hours in a duration that is formatted.
MaxHours == 2

\* due_at of an assignment without due date (null).
NoDue == 0

\* ------------------------------------------------------------------ values
BaseHost == "canvas"
OtherHost == "elsewhere"
Paths == {1, 2}

\* A URL is a host and a path; host "" with a path is a path relative to
\* the axios baseURL; NullUrl stands for JavaScript null.
NullUrl == [host |-> "", path |-> 0]
RelUrl(p) == [host |-> "", path |-> p]
AbsUrl(h, p) == [host |-> h, path |-> p]
LinkUrls == {AbsUrl(h, p) : h \in {BaseHost, OtherHost}, p \in Paths}

\* One comma-separated entry of a Link header: its rel and the URL between
\* angle brackets (NullUrl: the entry has no <...> part).
LinkEntries == [rel : {"next", "prev"}, url : LinkUrls \cup {NullUrl}]
PrevEntry == [rel |-> "prev", url |-> AbsUrl(BaseHost, 1)]
\* The Link headers the upstream may send; <<>> is a missing header.
LinkHeaders ==
    {<<>>}
    \cup {<<e>> : e \in LinkEntries}
    \cup {<<PrevEntry, e>> : e \in {x \in LinkEntries : x.rel = "next"}}
    \cup {<<e, PrevEntry>> : e \in {x \in LinkEntries : x.rel = "next"}}

\* Values returned by fetchAllPages (and bodies sent by the upstream).
ArrayVal(s) == [kind |-> "array", items |-> s, id |-> 0, error |-> "", status |-> 0]
ObjectVal(i) == [kind |-> "object", items |-> <<>>, id |-> i, error |-> "", status |-> 0]
PermissionDenied ==
    [kind |-> "object", items |-> <<>>, id |-> 0, error |-> "Permission denied", status |-> 403]
NoValue == [kind |-> "none", items |-> <<>>, id |-> 0, error |-> "", status |-> 0]
\* A body that is no JSON: response.data is the text itself (a string).
TextVal == [kind |-> "text", items |-> <<>>, id |-> 0, error |-> "", status |-> 0]

\* The items of page k holding n items.
PageItems(k, n) == [i \in 1..n |-> <<k, i>>]

\* What one request can end in: a 2xx answer with an array or an object
\* body and a Link header, or a failure (status 0: no response at all).
ArrayResponse(items, link) ==
    [type |-> "array", items |-> items, id |-> 0, link |-> link, status |-> 200]
ObjectResponse(i, link) ==
    [type |-> "object", items |-> <<>>, id |-> i, link |-> link, status |-> 200]
ErrorResponse(status) ==
    [type |-> "error", items |-> <<>>, id |-> 0, link |-> <<>>, status |-> status]
\* A 2xx answer whose body is a page of text (say, a login page).
TextResponse ==
    [type |-> "text", items |-> <<>>, id |-> 0, link |-> <<>>, status |-> 200]
\* The answers the upstream may give to the request for page k.
ArrayResponses(k) ==
    {ArrayResponse(PageItems(k, n), link) : n \in 0..MaxItems, link \in LinkHeaders}
ObjectResponses(k) == {ObjectResponse(k, link) : link \in LinkHeaders}
DeniedResponses == {ErrorResponse(403)}
FailedResponses == {ErrorResponse(0), ErrorResponse(500)}
RunawayResponse(k) ==
    ArrayResponse(PageItems(k, MaxItems), <<[rel |-> "next", url |-> AbsUrl(BaseHost, 1)]>>)

\* response.data
Body(resp) ==
    IF resp.type = "array" THEN ArrayVal(resp.items)
    ELSE IF resp.type = "text" THEN TextVal
    ELSE ObjectVal(resp.id)

\* The URL given to fetchAllPages: its path and its per_page parameter
\* ("none": the URL has no per_page=, "num": it has per_page=<n>).
CallUrls ==
    [path : {1}, pp : {"none"}, n : {0}]
    \cup [path : {1}, pp : {"num"}, n : 1..MaxItems]
FetchOptions ==
    [silentErrors : BOOLEAN, maxPages : (0..MaxPagesOpt) \cup {DefaultMaxPages}]
DefaultOptions == [silentErrors |-> FALSE, maxPages |-> DefaultMaxPages]
SilentOptions == [silentErrors |-> TRUE, maxPages |-> DefaultMaxPages]

\* ------------------------------------------------------------------ fetchAllPages
Min(S) == CHOOSE x \in S : \A y \in S : x <= y

\* fullNextUrl.replace(CANVAS_URL, ''): a URL of the base host becomes a
\* relative path, any other URL stays as it is.
StripBase(u) == IF u.host = BaseHost THEN RelUrl(u.path) ELSE u

\* Mutant: the first entry of the header is followed, whatever its rel.
NextFromLinkAnyRel(link) ==
    IF link = <<>> THEN NullUrl
    ELSE IF link[1].url = NullUrl THEN NullUrl
    ELSE StripBase(link[1].url)

\* The Link header handling: the first entry containing rel="next", and the
\* URL between its angle brackets; otherwise null.
NextFromLink(link) ==
    LET nexts == {i \in 1..Len(link) : link[i].rel = "next"} IN
    IF link = <<>> THEN NullUrl
    ELSE IF nexts = {} THEN NullUrl
    ELSE IF link[Min(nexts)].url = NullUrl THEN NullUrl
    ELSE StripBase(link[Min(nexts)].url)

\* Mutant: only an empty page stops the loop early.
EarlyStopEmptyOnly(url, n) == n = 0

\* The early stop test of an array page of n items: an empty page, or
\* fewer items than the per_page of the URL the call was given.
EarlyStop(url, n) == n = 0 \/ (url.pp = "num" /\ n < url.n)

\* The locals of one call.
FetchStart(url) ==
    [allData |-> <<>>, nextUrl |-> RelUrl(url.path), pageCount |-> 0,
     at |-> "loop", result |-> NoValue]

Returned(f, v) == [f EXCEPT !.at = "returned", !.result = v]
Thrown(f) == [f EXCEPT !.at = "thrown"]

\* Mutant: a failure that is no 403 is raised even with silentErrors.
CatchRethrows(f, options, status) ==
    IF status = 403
    THEN Returned(f, IF options.silentErrors THEN ArrayVal(<<>>) ELSE PermissionDenied)
    ELSE Thrown(f)

\* Mutant: a 403 gives the empty sequence, with or without silentErrors.
CatchDeniedEmpty(f, options, status) ==
    IF status = 403 THEN Returned(f, ArrayVal(<<>>))
    ELSE IF options.silentErrors THEN Returned(f, ArrayVal(<<>>)) ELSE Thrown(f)

\* Mutant: after a failure that is no 403 the loop goes on with the same
\* URL (the request is tried again while pages are left).
CatchRetries(f, options, status) ==
    IF status = 403
    THEN Returned(f, IF options.silentErrors THEN ArrayVal(<<>>) ELSE PermissionDenied)
    ELSE IF f.pageCount < options.maxPages
    THEN [f EXCEPT !.pageCount = @ + 1, !.at = "await"]
    ELSE Returned(f, ArrayVal(f.allData))

\* Mutant: with silentErrors a failure returns what was accumulated.
CatchKeepsPages(f, options, status) ==
    IF status = 403
    THEN Returned(f, IF options.silentErrors THEN ArrayVal(f.allData) ELSE PermissionDenied)
    ELSE IF options.silentErrors THEN Returned(f, ArrayVal(f.allData)) ELSE Thrown(f)

\* Mutant: every failure that is no 403 is swallowed.
CatchSwallows(f, options, status) ==
    IF status = 403
    THEN Returned(f, IF options.silentErrors THEN ArrayVal(<<>>) ELSE PermissionDenied)
    ELSE Returned(f, ArrayVal(<<>>))

\* The catch block.
Catch(f, options, status) ==
    IF status = 403
    THEN Returned(f, IF options.silentErrors THEN ArrayVal(<<>>) ELSE PermissionDenied)
    ELSE IF options.silentErrors THEN Returned(f, ArrayVal(<<>>)) ELSE Thrown(f)

\* Mutant: the page cap is tested with <= instead of <.
LoopHeadOffByOne(f, options) ==
    IF f.nextUrl # NullUrl /\ f.pageCount <= options.maxPages
    THEN [f EXCEPT !.pageCount = @ + 1, !.at = "await"]
    ELSE Returned(f, ArrayVal(f.allData))

\* The loop condition: issue the next request or leave the loop.
LoopHead(f, options) ==
    IF f.nextUrl # NullUrl /\ f.pageCount < options.maxPages
    THEN [f EXCEPT !.pageCount = @ + 1, !.at = "await"]
    ELSE Returned(f, ArrayVal(f.allData))

\* Mutant: a page replaces what was accumulated instead of being appended.
OnResponseOverwrites(f, url, options, resp) ==
    IF resp.type = "error" THEN Catch(f, options, resp.status)
    ELSE IF resp.type # "array" THEN Returned(f, Body(resp))
    ELSE
        LET got == [f EXCEPT !.allData = resp.items] IN
        IF EarlyStop(url, Len(resp.items))
        THEN Returned(got, ArrayVal(got.allData))
        ELSE LoopHead([got EXCEPT !.nextUrl = NextFromLink(resp.link)], options)

\* Mutant: an object body is appended as one item and pagination goes on.
OnResponseObjectAsPage(f, url, options, resp) ==
    IF resp.type = "error" THEN Catch(f, options, resp.status)
    ELSE
        LET data == IF resp.type # "array" THEN <<Body(resp)>> ELSE resp.items
            got == [f EXCEPT !.allData = @ \o data]
        IN
        IF EarlyStop(url, Len(data))
        THEN Returned(got, ArrayVal(got.allData))
        ELSE LoopHead([got EXCEPT !.nextUrl = NextFromLink(resp.link)], options)

\* The body of the loop after the awaited request has ended in resp.
OnResponse(f, url, options, resp) ==
    IF resp.type = "error" THEN Catch(f, options, resp.status)
    ELSE IF resp.type # "array" THEN Returned(f, Body(resp))
    ELSE
        LET got == [f EXCEPT !.allData = @ \o resp.items] IN
        IF EarlyStop(url, Len(resp.items))
        THEN Returned(got, ArrayVal(got.allData))
        ELSE LoopHead([got EXCEPT !.nextUrl = NextFromLink(resp.link)], options)

\* fetchAllPages run to its end against a script: the answers the upstream
\* gives to the successive requests of the call.
RECURSIVE RunFetch(_, _, _, _)
RunFetch(f, url, options, script) ==
    IF f.at # "await" THEN f
    ELSE IF script = <<>> THEN Catch(f, options, 0)
    ELSE RunFetch(OnResponse(f, url, options, Head(script)), url, options, Tail(script))
FetchAllPages(url, options, script) ==
    RunFetch(LoopHead(FetchStart(url), options), url, options, script)

\* ------------------------------------------------------------------ the upstream of /api/all-data
TopSections == {"user", "courses", "announcements", "calendarEvents", "conversations", "todo"}
CourseSections == {"assignments", "modules", "discussions", "files", "pages", "grades"}

\* An endpoint: a top-level section (course 0), a sub-resource of a course,
\* or the submissions of one assignment of a course.
Endpoint(section, c, a) == [section |-> section, course |-> c, assignment |-> a]

\* The failing endpoints: nothing fails, or one section fails with a 403 or
\* a 500, a per-course section failing for one course or for all of them, or
\* the course list is answered with a page of text (status 200).
NoFault == [section |-> "none", status |-> 200, courses |-> {}]
Faults(n) ==
    {NoFault}
    \cup [section : TopSections, status : {403, 500}, courses : {{}}]
    \cup [section : {"courses"}, status : {200}, courses : {{}}]
    \cup [section : CourseSections \cup {"submissions"}, status : {403, 500},
          courses : {{c} : c \in 1..n} \cup ({1..n} \ {{}})]
\* n courses, each with nAssign assignments. sameId: the course list names
\* one course in all its entries (pages of the list that overlap). spring:
\* the course ids configured as SPRING_2025_COURSE_IDS (none: not set).
Worlds ==
    {w \in [n : 0..MaxCourses,
            nAssign : 0..MaxAssignments,
            fault : Faults(MaxCourses),
            sendsCourseId : BOOLEAN,
            sameId : {FALSE},
            spring : {{}}] :
        /\ w.n = 0 => w.nAssign = 0
        /\ w.fault \in Faults(w.n)}

Fails(w, e) ==
    /\ w.fault.section = e.section
    /\ e.course = 0 \/ e.course \in w.fault.courses

\* The objects the upstream holds. An item is known by the endpoint that
\* lists it and its id there; an assignment carries the course_id the
\* upstream gave it (0: the upstream sent none); a course has a name and a
\* code, which go with its id.
DueAt(e, i) ==
    IF e.section = "assignments" THEN (2 * e.course + 3 * i) % (MaxDate + 1) ELSE NoDue
Item(w, e, i) ==
    [from |-> e,
     id |-> IF e.section = "courses" /\ w.sameId THEN 1 ELSE i,
     course_id |-> IF e.section = "assignments" /\ w.sendsCourseId THEN e.course ELSE 0,
     due_at |-> DueAt(e, i),
     name |-> IF e.section = "courses" THEN <<"name", IF w.sameId THEN 1 ELSE i>> ELSE <<>>,
     course_code |-> IF e.section = "courses" THEN <<"code", IF w.sameId THEN 1 ELSE i>> ELSE <<>>,
     course_name |-> <<>>]
Count(w, e) ==
    IF e.section = "courses" THEN w.n
    ELSE IF e.section = "assignments" THEN w.nAssign
    ELSE 1
Listing(w, e) == [i \in 1..Count(w, e) |-> Item(w, e, i)]

\* The answers of the upstream to the requests of one fetchAllPages call.
Script(w, e) ==
    IF Fails(w, e)
    THEN <<IF w.fault.status = 200 THEN TextResponse ELSE ErrorResponse(w.fault.status)>>
    ELSE IF e.section = "user" THEN <<ObjectResponse(1, <<>>)>>
    ELSE <<ArrayResponse(Listing(w, e), <<>>)>>

PlainUrl == [path |-> 1, pp |-> "none", n |-> 0]
\* The outcome of fetchAllPages for endpoint e.
Fetched(w, e, options) == FetchAllPages(PlainUrl, options, Script(w, e))
\* fetchAllPages as canvasService requires it from utils/canvasAPI.
ServiceFetched(w, e, options) == Fetched(w, e, options)

\* ------------------------------------------------------------------ /api/all-data
\* The report at the start of the handler.
NewReport ==
    [user |-> NoValue, courses |-> <<>>,
     announcements |-> ArrayVal(<<>>), calendarEvents |-> ArrayVal(<<>>),
     conversations |-> ArrayVal(<<>>), todo |-> ArrayVal(<<>>),
     accessibleData |-> [s \in TopSections |-> "unset"],
     errors |-> <<>>]

\* try { allData[section] = await fetchAllPages(..); accessibleData[section] = true }
\* catch { errors.push({endpoint: section}); accessibleData[section] = false }
StoreSection(report, section, f) ==
    IF f.at = "thrown"
    THEN [report EXCEPT !.errors = Append(@, section), !.accessibleData[section] = "false"]
    ELSE [report EXCEPT ![section] = f.result, !.accessibleData[section] = "true"]

\* The courses section: the result goes to the local variable courses.
StoreCourses(report, f) ==
    IF f.at = "thrown"
    THEN [report EXCEPT !.errors = Append(@, "courses"), !.accessibleData["courses"] = "false"]
    ELSE [report EXCEPT !.accessibleData["courses"] = "true"]

\* x.length > 0 in JavaScript: false for an object without length.
HasItems(v) == v.kind = "array" /\ Len(v.items) > 0

\* Mutant: the announcements are requested for an empty course set too.
AnnouncementsPlanAlwaysRequests(cs) ==
    IF cs.kind # "array" THEN "throws" ELSE "request"

\* The announcements section up to its await: courses.map(..) throws when
\* courses is no array; with no course the section ends without a request.
\* "throws" / "empty" / "request"
AnnouncementsPlan(cs) ==
    IF cs.kind # "array" THEN "throws"
    ELSE IF Len(cs.items) = 0 THEN "empty"
    ELSE "request"
AnnouncementsWithoutRequest(report, cs) ==
    IF AnnouncementsPlan(cs) = "throws"
    THEN [report EXCEPT !.errors = Append(@, "announcements"),
                        !.accessibleData["announcements"] = "false"]
    ELSE [report EXCEPT !.announcements = ArrayVal(<<>>),
                        !.accessibleData["announcements"] = "true"]

\* courseData as the task of a course creates it.
NewCourseData(course) ==
    [course |-> course, assignments |-> <<>>,
     modules |-> NoValue, discussions |-> NoValue, files |-> NoValue,
     pages |-> NoValue, grades |-> NoValue,
     accessibleData |-> [s \in CourseSections |-> "unset"]]
NewTask(course) ==
    [at |-> "assignments", k |-> 0, assignments |-> NoValue,
     courseData |-> NewCourseData(course)]

\* The sub-fetch that follows a section in the task of a course.
SectionAfter(section) ==
    CASE section = "assignments" -> "modules"
      [] section = "submissions" -> "modules"
      [] section = "modules" -> "discussions"
      [] section = "discussions" -> "files"
      [] section = "files" -> "pages"
      [] section = "pages" -> "grades"
      [] OTHER -> "done"

\* Mutant: the catch of the assignments fetch leaves the flag unset.
AfterAssignmentsNoFlag(t, f) ==
    IF f.at = "thrown"
    THEN [t EXCEPT !.at = "modules", !.courseData.assignments = <<>>]
    ELSE [t EXCEPT !.at = IF HasItems(f.result) THEN "submissions" ELSE "modules",
                   !.k = IF HasItems(f.result) THEN 1 ELSE 0,
                   !.assignments = f.result,
                   !.courseData.assignments = <<>>,
                   !.courseData.accessibleData["assignments"] = "true"]

\* The assignments fetch of a course has ended in f.
AfterAssignments(t, f) ==
    IF f.at = "thrown"
    THEN [t EXCEPT !.at = "modules",
                   !.courseData.assignments = <<>>,
                   !.courseData.accessibleData["assignments"] = "false"]
    ELSE [t EXCEPT !.at = IF HasItems(f.result) THEN "submissions" ELSE "modules",
                   !.k = IF HasItems(f.result) THEN 1 ELSE 0,
                   !.assignments = f.result,
                   !.courseData.assignments = <<>>,
                   !.courseData.accessibleData["assignments"] = "true"]

\* {...assignment, submissions}, and the entry of the inner catch.
WithSubmissions(assignment, f) ==
    IF f.at = "thrown"
    THEN [assignment |-> assignment, submissions |-> <<>>,
          submissionsError |-> "Permission denied"]
    ELSE [assignment |-> assignment,
          submissions |-> IF f.result.kind = "array" THEN f.result.items ELSE <<>>,
          submissionsError |-> ""]

\* The submissions fetch of assignment t.k has ended in f.
AfterSubmissions(t, f) ==
    LET last == t.k = Len(t.assignments.items) IN
    [t EXCEPT !.courseData.assignments = Append(@, WithSubmissions(t.assignments.items[t.k], f)),
              !.k = IF last THEN t.k ELSE t.k + 1,
              !.at = IF last THEN "modules" ELSE "submissions"]

\* One of the other sub-fetches of a course has ended in f.
AfterCourseSection(t, section, f) ==
    IF f.at = "thrown"
    THEN [t EXCEPT !.at = SectionAfter(section),
                   !.courseData[section] = ArrayVal(<<>>),
                   !.courseData.accessibleData[section] = "false"]
    ELSE [t EXCEPT !.at = SectionAfter(section),
                   !.courseData[section] = f.result,
                   !.courseData.accessibleData[section] = "true"]

\* The endpoint a task standing at an await has requested, and the options
\* of that fetchAllPages call.
TaskEndpoint(t) ==
    IF t.at = "submissions"
    THEN Endpoint("submissions", t.courseData.course.id, t.assignments.items[t.k].id)
    ELSE Endpoint(t.at, t.courseData.course.id, 0)
TaskOptions(t) == IF t.at = "submissions" THEN SilentOptions ELSE DefaultOptions

\* The task of a course resumes with the outcome f of its awaited fetch.
TaskResume(t, f) ==
    IF t.at = "assignments" THEN AfterAssignments(t, f)
    ELSE IF t.at = "submissions" THEN AfterSubmissions(t, f)
    ELSE AfterCourseSection(t, t.at, f)

\* ------------------------------------------------------------------ state
VARIABLES
    call,       \* the arguments of the fetchAllPages call: url and options
    fetch,      \* the locals of the call, where it stands and its result
    requests,   \* the URLs requested so far, in order
    served,     \* the responses received so far, in order
    lastLink,   \* the Link header of the last response
    parked,     \* the call or request suspended at an await while another runs
    world,      \* what the upstream holds and which of its endpoints fail
    route,      \* the route of the request being handled
    at,         \* the await the handler stands at
    courses,    \* the handler's local variable courses
    allData,    \* the report the handler builds
    tasks,      \* the per-course tasks of the fan-out, in input order
    sent,       \* the endpoints requested so far
    inflight,   \* the requests awaiting their answer, each with its task
    finished,   \* the tasks that have ended, in the order they ended in
    res,        \* the HTTP status the handler has answered with (0: none yet)
    reply,      \* what the body of the answer carries
    arg,        \* the input of the function applied on its own
    out         \* what the function made of it

fetchVars == <<call, fetch, requests, served, lastLink, parked>>
handlerVars == <<world, route, at, courses, allData, tasks, sent, inflight, finished,
                 res, reply>>
pureVars == <<arg, out>>
vars == <<call, fetch, requests, served, lastLink, parked,
          world, route, at, courses, allData, tasks, sent, inflight, finished,
          res, reply, arg, out>>

\* Nothing else is in progress.
NoParked == [kind |-> "none"]

\* What the history keeps of a response.
Seen(resp) == [type |-> resp.type, status |-> resp.status, body |-> Body(resp)]

\* The request a call standing at an await has in flight.
Target(f) == f.nextUrl
\* The host canvasAPI.get(u) sends the request and the headers of the
\* instance to: the baseURL for a relative path, the host of u otherwise.
RequestHost(u) == IF u.host = "" THEN BaseHost ELSE u.host

\* The body of an answer: what it is, and whether it carries the message
\* of the error (details) and the elapsed time (timing).
NoReply == [body |-> "none", details |-> FALSE, timing |-> FALSE]
\* res.json(..) of the report, with its timing.
ReportReply == [body |-> "report", details |-> FALSE, timing |-> TRUE]
\* The answer of the framework's own error handler.
DefaultReply == [body |-> "default", details |-> FALSE, timing |-> FALSE]

\* A request in flight: the task that awaits it (0: the handler itself).
Req(i, e) == [task |-> i, endpoint |-> e]

\* No function is applied on its own.
NoFunction == arg = <<>> /\ out = [op |-> "none", value |-> <<>>]

\* The state of the handler while no request is handled.
NoWorld ==
    [n |-> 0, nAssign |-> 0, fault |-> NoFault, sendsCourseId |-> FALSE,
     sameId |-> FALSE, spring |-> {}]
NoHandler ==
    /\ world = NoWorld
    /\ route = "off"
    /\ at = "off"
    /\ courses = ArrayVal(<<>>)
    /\ allData = NewReport
    /\ tasks = <<>>
    /\ sent = {}
    /\ inflight = {}
    /\ finished = <<>>
    /\ res = 0
    /\ reply = NoReply

InitFetch ==
    /\ call \in [url : CallUrls, options : FetchOptions]
    /\ fetch = [FetchStart(call.url) EXCEPT !.at = "idle"]
    /\ requests = <<>>
    /\ served = <<>>
    /\ lastLink = <<>>
    /\ parked = NoParked
    /\ NoHandler
    /\ NoFunction

\* fetchAllPages(url, options) is called: up to the first await.
FetchCall ==
    /\ fetch.at = "idle"
    /\ fetch' = LoopHead(FetchStart(call.url), call.options)
    /\ requests' = IF fetch'.at = "await" THEN <<Target(fetch')>> ELSE <<>>
    /\ UNCHANGED <<call, served, lastLink, parked>>
    /\ UNCHANGED <<handlerVars, pureVars>>

\* The request in flight ends in resp: up to the next await or the return.
Respond(resp) ==
    /\ fetch.at = "await"
    /\ fetch' = OnResponse(fetch, call.url, call.options, resp)
    /\ requests' = IF fetch'.at = "await" THEN Append(requests, Target(fetch')) ELSE requests
    /\ served' = Append(served, Seen(resp))
    /\ lastLink' = resp.link
    /\ UNCHANGED <<call, parked>>
    /\ UNCHANGED <<handlerVars, pureVars>>

Free == fetch.pageCount <= MaxChain

RespondArray == \E resp \in ArrayResponses(fetch.pageCount) : Free /\ Respond(resp)
RespondObject == \E resp \in ObjectResponses(fetch.pageCount) : Free /\ Respond(resp)
RespondDenied == \E resp \in DeniedResponses : Free /\ Respond(resp)
RespondFailed == \E resp \in FailedResponses : Free /\ Respond(resp)
RespondRunaway == ~Free /\ Respond(RunawayResponse(fetch.pageCount))

NextFetch ==
    \/ FetchCall
    \/ RespondArray
    \/ RespondObject
    \/ RespondDenied
    \/ RespondFailed
    \/ RespondRunaway

SpecFetch == InitFetch /\ [][NextFetch]_vars

\* ------------------------------------------------------------------ the /api/all-data handler
NoFetchCall ==
    /\ call = [url |-> PlainUrl, options |-> DefaultOptions]
    /\ fetch = [FetchStart(PlainUrl) EXCEPT !.at = "off"]
    /\ requests = <<>>
    /\ served = <<>>
    /\ lastLink = <<>>
    /\ parked = NoParked

InitAllData ==
    /\ world \in Worlds
    /\ route = "all-data"
    /\ at = "start"
    /\ courses = ArrayVal(<<>>)
    /\ allData = NewReport
    /\ tasks = <<>>
    /\ sent = {}
    /\ inflight = {}
    /\ finished = <<>>
    /\ res = 0
    /\ reply = NoReply
    /\ NoFetchCall
    /\ NoFunction

Top(section) == Endpoint(section, 0, 0)

\* The outer catch block of the handler. It reads startTime, which is
\* declared inside the try block and so is not in scope: a ReferenceError
\* is raised before res.status(500) is reached and the promise of the
\* handler is rejected. The request then stays unanswered, or is answered
\* by the error handler of the framework.
AllDataCatch ==
    {[res |-> 0, reply |-> NoReply], [res |-> 500, reply |-> DefaultReply]}

\* GET /api/all-data arrives: up to the await of the user fetch.
Receive ==
    /\ route = "all-data" /\ at = "start"
    /\ at' = "user"
    /\ sent' = {Top("user")}
    /\ inflight' = {Req(0, Top("user"))}
    /\ UNCHANGED <<world, route, courses, allData, tasks, finished, res, reply>>
    /\ UNCHANGED <<fetchVars, pureVars>>

\* The user fetch has ended: up to the await of the courses fetch.
UserFetched ==
    /\ route = "all-data" /\ at = "user"
    /\ allData' = StoreSection(allData, "user", Fetched(world, Top("user"), DefaultOptions))
    /\ at' = "courses"
    /\ sent' = sent \cup {Top("courses")}
    /\ inflight' = {Req(0, Top("courses"))}
    /\ UNCHANGED <<world, route, courses, tasks, finished, res, reply>>
    /\ UNCHANGED <<fetchVars, pureVars>>

\* From the announcements section on, up to the next await: the report,
\* the await reached and the endpoint requested there.
ToAnnouncements(report, cs) ==
    IF AnnouncementsPlan(cs) = "request"
    THEN [report |-> report, at |-> "announcements"]
    ELSE [report |-> AnnouncementsWithoutRequest(report, cs), at |-> "calendarEvents"]

\* Mutant: the submissions of all remaining assignments are requested at
\* once (a Promise.all over the assignments).
PendingAllSubmissions(t) ==
    IF t.at = "done" THEN {}
    ELSE IF t.at = "submissions"
    THEN {Endpoint("submissions", t.courseData.course.id, t.assignments.items[j].id) :
              j \in t.k..Len(t.assignments.items)}
    ELSE {TaskEndpoint(t)}

\* The requests a task has in flight where it stands: the one it awaits.
Pending(t) == IF t.at = "done" THEN {} ELSE {TaskEndpoint(t)}
InFlight(ts) == UNION {{Req(i, e) : e \in Pending(ts[i])} : i \in 1..Len(ts)}
Endpoints(rs) == {r.endpoint : r \in rs}

\* The courses fetch has ended: the per-course tasks start and run up to
\* their first await, or, without courses, the handler goes on to the
\* announcements section. A text has a length but no map: the TypeError
\* is raised outside the guarded sections and reaches the outer catch.
CoursesFetched ==
    LET f == Fetched(world, Top("courses"), DefaultOptions)
        cs == IF f.at = "thrown" THEN courses ELSE f.result
        report == StoreCourses(allData, f)
        on == ToAnnouncements(report, cs)
    IN
    /\ route = "all-data" /\ at = "courses"
    /\ courses' = cs
    /\ IF cs.kind = "text"
       THEN /\ tasks' = tasks
            /\ allData' = report
            /\ at' = "caught"
            /\ sent' = sent
            /\ inflight' = {}
            /\ \E o \in AllDataCatch : res' = o.res /\ reply' = o.reply
       ELSE IF HasItems(cs)
       THEN /\ tasks' = [i \in 1..Len(cs.items) |-> NewTask(cs.items[i])]
            /\ allData' = report
            /\ at' = "fanout"
            /\ sent' = sent \cup Endpoints(InFlight(tasks'))
            /\ inflight' = InFlight(tasks')
            /\ UNCHANGED <<res, reply>>
       ELSE /\ tasks' = tasks
            /\ allData' = on.report
            /\ at' = on.at
            /\ sent' = sent \cup {Top(on.at)}
            /\ inflight' = {Req(0, Top(on.at))}
            /\ UNCHANGED <<res, reply>>
    /\ UNCHANGED <<world, route, finished>>
    /\ UNCHANGED <<fetchVars, pureVars>>

\* The fetch awaited by the task of the i-th course has ended: the task
\* runs up to its next await or to its end.
TaskStep(i) ==
    LET t == tasks[i]
        next == TaskResume(t, Fetched(world, TaskEndpoint(t), TaskOptions(t)))
    IN
    /\ route = "all-data" /\ at = "fanout"
    /\ t.at # "done"
    /\ tasks' = [tasks EXCEPT ![i] = next]
    /\ sent' = sent \cup Pending(next)
    /\ inflight' = {r \in inflight : r.task # i} \cup {Req(i, e) : e \in Pending(next)}
    /\ finished' = IF next.at = "done" THEN Append(finished, i) ELSE finished
    /\ UNCHANGED <<world, route, at, courses, allData, res, reply>>
    /\ UNCHANGED <<fetchVars, pureVars>>

CourseTask == \E i \in 1..Len(tasks) : TaskStep(i)

\* The requests of the per-course tasks among rs: the handler's own await
\* ends or starts without touching them.
OfTasks(rs) == {r \in rs : r.task # 0}

\* Mutant: the join resolves as soon as one task has ended.
SettledFirst(ts) == \E i \in 1..Len(ts) : ts[i].at = "done"

\* Promise.all over tasks that never reject: it resolves when every task
\* has returned.
Settled(ts) == \A i \in 1..Len(ts) : ts[i].at = "done"

\* Mutant: the results are collected in the order the tasks ended in.
JoinedAsFinished(ts, order) == [k \in 1..Len(order) |-> ts[order[k]]]

\* What Promise.all resolves to: the tasks' results by the position of
\* their promise in the input, whatever order they ended in.
Joined(ts, order) == [i \in 1..Len(ts) |-> ts[i]]

\* Promise.all resolves: the course entries are stored in input order and
\* the handler goes on to the announcements section.
Join ==
    LET joined == Joined(tasks, finished)
        report == [allData EXCEPT !.courses = [i \in 1..Len(joined) |-> joined[i].courseData]]
        on == ToAnnouncements(report, courses)
    IN
    /\ route = "all-data" /\ at = "fanout"
    /\ Settled(tasks)
    /\ allData' = on.report
    /\ at' = on.at
    /\ sent' = sent \cup {Top(on.at)}
    /\ inflight' = OfTasks(inflight) \cup {Req(0, Top(on.at))}
    /\ UNCHANGED <<world, route, courses, tasks, finished, res, reply>>
    /\ UNCHANGED <<fetchVars, pureVars>>

\* The fetch of a top-level section has ended: up to the next await.
SectionFetched(section, then) ==
    /\ route = "all-data" /\ at = section
    /\ allData' = StoreSection(allData, section, Fetched(world, Top(section), DefaultOptions))
    /\ at' = then
    /\ sent' = sent \cup {Top(then)}
    /\ inflight' = OfTasks(inflight) \cup {Req(0, Top(then))}
    /\ UNCHANGED <<world, route, courses, tasks, finished, res, reply>>
    /\ UNCHANGED <<fetchVars, pureVars>>

AnnouncementsFetched == SectionFetched("announcements", "calendarEvents")
CalendarEventsFetched == SectionFetched("calendarEvents", "conversations")
ConversationsFetched == SectionFetched("conversations", "todo")

\* The todo fetch has ended: res.json(allData).
TodoFetched ==
    /\ route = "all-data" /\ at = "todo"
    /\ allData' = StoreSection(allData, "todo", Fetched(world, Top("todo"), DefaultOptions))
    /\ at' = "done"
    /\ inflight' = OfTasks(inflight)
    /\ res' = 200
    /\ reply' = ReportReply
    /\ UNCHANGED <<world, route, courses, tasks, sent, finished>>
    /\ UNCHANGED <<fetchVars, pureVars>>

NextAllData ==
    \/ Receive
    \/ UserFetched
    \/ CoursesFetched
    \/ CourseTask
    \/ Join
    \/ AnnouncementsFetched
    \/ CalendarEventsFetched
    \/ ConversationsFetched
    \/ TodoFetched

SpecAllData == InitAllData /\ [][NextAllData]_vars

\* ------------------------------------------------------------------ grade extraction
\* Largest number of enrollments a course lists.
MaxEnrollments == 2

\* JavaScript undefined (the field is absent) and null.
Undefined == "undefined"
Null == "null"
\* An enrollment as the upstream sends it: its type, the two scores, each
\* absent, null or a number (the current score may be 0), and the two grade
\* letters: none of them, both, or only the final one. The enrollment of a
\* teacher is only ever read for its type: one with scores and letters
\* stands for all of them.
Letters ==
    {[computed_current_grade |-> Undefined, computed_final_grade |-> Undefined],
     [computed_current_grade |-> "A-", computed_final_grade |-> "B"],
     [computed_current_grade |-> Undefined, computed_final_grade |-> "B"]}
EnrollmentsOf(types, currentScores, finalScores, letters) ==
    {[type |-> t, computed_current_score |-> c, computed_final_score |-> f,
      computed_current_grade |-> l.computed_current_grade,
      computed_final_grade |-> l.computed_final_grade] :
        t \in types, c \in currentScores, f \in finalScores, l \in letters}
Enrollments ==
    EnrollmentsOf({"student"}, {Undefined, Null, "0", "91"}, {Undefined, Null, "85"}, Letters)
    \cup EnrollmentsOf({"teacher"}, {"91"}, {"85"},
                       {l \in Letters : l.computed_current_grade # Undefined})
\* No enrollment found: find(..) gave undefined, or the course has no list.
NoEnrollment ==
    [type |-> Undefined, computed_current_score |-> Undefined,
     computed_final_score |-> Undefined, computed_current_grade |-> Undefined,
     computed_final_grade |-> Undefined]

RECURSIVE SeqsUpTo(_, _)
SeqsUpTo(S, n) ==
    IF n = 0 THEN {<<>>}
    ELSE LET shorter == SeqsUpTo(S, n - 1) IN
         shorter \cup {Append(q, x) : q \in {r \in shorter : Len(r) = n - 1}, x \in S}

\* A course as far as the grade extraction reads it: listed is false when
\* the course has no enrollments field.
GradedCourses ==
    {[listed |-> FALSE, enrollments |-> <<>>]}
    \cup {[listed |-> TRUE, enrollments |-> es] : es \in SeqsUpTo(Enrollments, MaxEnrollments)}

\* Mutant: the first student enrollment that has a score is taken.
StudentEnrollmentWithScore(course) ==
    LET es == course.enrollments
        found == {i \in 1..Len(es) :
                     /\ es[i].type = "student"
                     /\ \/ es[i].computed_current_score \notin {Undefined, Null}
                        \/ es[i].computed_final_score \notin {Undefined, Null}}
    IN
    IF ~course.listed THEN NoEnrollment
    ELSE IF found = {} THEN NoEnrollment
    ELSE es[Min(found)]

\* course.enrollments ? course.enrollments.find(e => e.type === 'student') : null
StudentEnrollment(course) ==
    LET es == course.enrollments
        found == {i \in 1..Len(es) : es[i].type = "student"}
    IN
    IF ~course.listed THEN NoEnrollment
    ELSE IF found = {} THEN NoEnrollment
    ELSE es[Min(found)]

HasGrade(enrollment) ==
    /\ enrollment # NoEnrollment
    /\ \/ enrollment.computed_current_score # Undefined
       \/ enrollment.computed_final_score # Undefined
Grade(enrollment) ==
    IF HasGrade(enrollment)
    THEN (IF enrollment.computed_current_score # Undefined
          THEN enrollment.computed_current_score
          ELSE enrollment.computed_final_score)
    ELSE Null
GradeLetter(enrollment) ==
    IF HasGrade(enrollment)
    THEN (IF enrollment.computed_current_grade # Undefined
          THEN enrollment.computed_current_grade
          ELSE enrollment.computed_final_grade)
    ELSE Null
\* The entry of gradesData made for a course.
GradesData(course) ==
    LET enrollment == StudentEnrollment(course) IN
    [grade |-> Grade(enrollment),
     grade_letter |-> GradeLetter(enrollment),
     enrollment_type |-> IF enrollment # NoEnrollment THEN enrollment.type ELSE Null]

\* A score that counts as true in a condition: a number other than 0.
Truthy(score) == score \notin {Undefined, Null, "0"}
\* course.enrollments && course.enrollments.find(e => e.type === 'student'
\*     && (e.computed_current_score || e.computed_final_score))
TwoStageEnrollment(course) ==
    LET es == course.enrollments
        found == {i \in 1..Len(es) :
                     /\ es[i].type = "student"
                     /\ \/ Truthy(es[i].computed_current_score)
                        \/ Truthy(es[i].computed_final_score)}
    IN
    IF ~course.listed THEN NoEnrollment
    ELSE IF found = {} THEN NoEnrollment
    ELSE es[Min(found)]
TwoStageHasGrade(enrollment) ==
    /\ enrollment # NoEnrollment
    /\ \/ enrollment.computed_current_score # Undefined
       \/ enrollment.computed_final_score # Undefined
TwoStageGrade(enrollment) ==
    IF TwoStageHasGrade(enrollment)
    THEN (IF enrollment.computed_current_score # Undefined
          THEN enrollment.computed_current_score
          ELSE enrollment.computed_final_score)
    ELSE Null
TwoStageGradeLetter(enrollment) ==
    IF TwoStageHasGrade(enrollment)
    THEN (IF enrollment.computed_current_grade # Undefined
          THEN enrollment.computed_current_grade
          ELSE enrollment.computed_final_grade)
    ELSE Null
\* The entry of processedCourses made for a course.
ProcessedCourse(course) ==
    LET enrollment == TwoStageEnrollment(course) IN
    [grade |-> TwoStageGrade(enrollment),
     grade_letter |-> TwoStageGradeLetter(enrollment)]

NoRequest ==
    /\ NoHandler
    /\ NoFetchCall

InitGrades ==
    /\ arg \in GradedCourses
    /\ out = [op |-> "none", value |-> <<>>]
    /\ NoRequest

\* The callback of courses.map(..) is applied to one course.
ExtractGrade ==
    /\ out.op = "none"
    /\ out' = [op |-> "grade", value |-> GradesData(arg)]
    /\ UNCHANGED arg
    /\ UNCHANGED <<fetchVars, handlerVars>>

\* The callback of courses.map(..) of the two-stage controller is applied
\* to one course.
ProcessCourse ==
    /\ out.op = "none"
    /\ out' = [op |-> "processed", value |-> ProcessedCourse(arg)]
    /\ UNCHANGED arg
    /\ UNCHANGED <<fetchVars, handlerVars>>

NextGrades ==
    \/ ExtractGrade
    \/ ProcessCourse

SpecGrades == InitGrades /\ [][NextGrades]_vars

\* ------------------------------------------------------------------ the sort by due date
\* An assignment as far as the sort reads it; id tells the items apart.
Assignment(i, d) == [id |-> i, due_at |-> d]
MergedLists ==
    UNION {{[i \in 1..n |-> Assignment(i, dues[i])] : dues \in [1..n -> 0..MaxDate]} :
               n \in 0..MaxList}

\* Mutant: an assignment without due date sorts before every other.
CompareDueNullFirst(a, b) ==
    IF a.due_at = NoDue THEN -1
    ELSE IF b.due_at = NoDue THEN 1
    ELSE a.due_at - b.due_at

\* (a, b) => { if (!a.due_at) return 1; if (!b.due_at) return -1;
\*             return new Date(a.due_at) - new Date(b.due_at); }
CompareDue(a, b) ==
    IF a.due_at = NoDue THEN 1
    ELSE IF b.due_at = NoDue THEN -1
    ELSE a.due_at - b.due_at

\* Array.prototype.sort with that comparator, as the engine sorts a short
\* array: each element is placed into the sorted part before it by a
\* binary search that asks the comparator (a stable insertion sort).
RECURSIVE Place(_, _, _, _)
Place(sorted, x, left, right) ==
    IF left >= right THEN left
    ELSE LET mid == left + ((right - left) \div 2) IN
         IF CompareDue(x, sorted[mid + 1]) < 0
         THEN Place(sorted, x, left, mid)
         ELSE Place(sorted, x, mid + 1, right)
InsertAt(sorted, x, p) ==
    SubSeq(sorted, 1, p) \o <<x>> \o SubSeq(sorted, p + 1, Len(sorted))
\* The elements of rest are inserted one by one; the list after each
\* insertion is bound as a value before the next one starts.
RECURSIVE SortFrom(_, _)
SortFrom(sorted, rest) ==
    IF rest = <<>> THEN sorted
    ELSE CHOOSE result \in
             {SortFrom(next, Tail(rest)) :
                 next \in {InsertAt(sorted, Head(rest),
                                    Place(sorted, Head(rest), 0, Len(sorted)))}} : TRUE
SortByDue(list) == SortFrom(<<>>, list)

InitSort ==
    /\ arg \in MergedLists
    /\ out = [op |-> "none", value |-> <<>>]
    /\ NoRequest

\* currentAssignments.sort(..): the merged list is sorted.
SortAssignments ==
    /\ out.op = "none"
    /\ out' = [op |-> "sort", value |-> SortByDue(arg)]
    /\ UNCHANGED arg
    /\ UNCHANGED <<fetchVars, handlerVars>>

\* The comparator is called on every pair of items of the list.
CompareAssignments ==
    /\ out.op = "none"
    /\ out' = [op |-> "compare",
               value |-> [i \in 1..Len(arg) |-> [j \in 1..Len(arg) |-> CompareDue(arg[i], arg[j])]]]
    /\ UNCHANGED arg
    /\ UNCHANGED <<fetchVars, handlerVars>>

NextSort ==
    \/ SortAssignments
    \/ CompareAssignments

SpecSort == InitSort /\ [][NextSort]_vars

\* ------------------------------------------------------------------ the other aggregation handlers
\* The upstream of the other handlers: nothing fails, or the user, the
\* course list or the announcements fail, or the assignments of some
\* courses do, or the course list is answered with a page of text.
ServerFaults(n) ==
    {NoFault}
    \cup [section : {"user", "courses", "announcements"}, status : {403, 500}, courses : {{}}]
    \cup [section : {"courses"}, status : {200}, courses : {{}}]
    \cup [section : {"assignments"}, status : {403, 500}, courses : (SUBSET (1..n)) \ {{}}]
ServerWorlds ==
    {w \in [n : 0..MaxCourses,
            nAssign : 0..MaxAssignments,
            fault : ServerFaults(MaxCourses),
            sendsCourseId : {FALSE},
            sameId : BOOLEAN,
            spring : SUBSET (1..MaxCourses)] :
        /\ w.n = 0 => w.nAssign = 0
        /\ w.fault \in ServerFaults(w.n)
        /\ w.sameId => (w.n >= 2 /\ w.fault = NoFault)
        /\ w.spring \subseteq 1..w.n}
\* SPRING_2025_COURSE_IDS is read by the two-stage handler only.
PlainWorlds == {w \in ServerWorlds : w.spring = {}}

\* res.status(500).json({error, details, ..}) of the other handlers: the
\* message of the error, no timing.
FailureReply == [body |-> "failure", details |-> TRUE, timing |-> FALSE]

\* A request of route r arrives at a server whose upstream is one of W.
InitHandler(r, W, report) ==
    /\ world \in W
    /\ route = r
    /\ at = "start"
    /\ courses = ArrayVal(<<>>)
    /\ allData = report
    /\ tasks = <<>>
    /\ sent = {}
    /\ inflight = {}
    /\ finished = <<>>
    /\ res = 0
    /\ reply = NoReply
    /\ NoFetchCall
    /\ NoFunction

\* The handler awaits the fetch of a top-level endpoint.
Await(section) ==
    /\ at' = section
    /\ sent' = sent \cup {Top(section)}
    /\ inflight' = OfTasks(inflight) \cup {Req(0, Top(section))}
\* The handler answers: res.json(..) or res.status(500).json(..).
Answer(status, body) ==
    /\ at' = IF status = 200 THEN "done" ELSE "caught"
    /\ res' = status
    /\ reply' = body
    /\ inflight' = OfTasks(inflight)
    /\ sent' = sent

\* {...assignment, course_name, course_code, course_id: course.id}
\* Mutant: only the id of the course is added.
WithCourseId(assignment, course) == [assignment EXCEPT !.course_id = course.id]

\* The assignment with the name, the code and the id of the course of the
\* task that fetched it.
WithCourseInfo(assignment, course) ==
    [assignment EXCEPT !.course_name = course.name,
                       !.course_code = course.course_code,
                       !.course_id = course.id]

\* The task of a course in the fan-out of dashboard, current-assignments
\* and two-stage-data: one fetch of the course's assignments.
NewAssignmentsTask(course) ==
    [at |-> "assignments", courseData |-> [course |-> course],
     result |-> <<>>, error |-> FALSE]

\* Mutant: a failed fetch gives an empty list and no error.
AfterCourseAssignmentsQuiet(t, f) ==
    IF f.at = "thrown" \/ f.result.kind # "array"
    THEN [t EXCEPT !.at = "done", !.result = <<>>, !.error = FALSE]
    ELSE [t EXCEPT !.at = "done",
                   !.result = [i \in 1..Len(f.result.items) |->
                                  WithCourseInfo(f.result.items[i], t.courseData.course)],
                   !.error = FALSE]

\* The fetch has ended in f: assignments.map(..) raises a TypeError when
\* assignments is no array; the catch of the task returns without list.
AfterCourseAssignments(t, f) ==
    IF f.at = "thrown" \/ f.result.kind # "array"
    THEN [t EXCEPT !.at = "done", !.result = <<>>, !.error = TRUE]
    ELSE [t EXCEPT !.at = "done",
                   !.result = [i \in 1..Len(f.result.items) |->
                                  WithCourseInfo(f.result.items[i], t.courseData.course)],
                   !.error = FALSE]

\* Mutant: the timing entries are kept under one key for all courses.
KeyOfCourseShared(course) == 0

\* timings.assignments.byCourseDuration[course.id]
KeyOfCourse(course) == course.id
Put(f, k, v) == [x \in DOMAIN f \cup {k} |-> IF x = k THEN v ELSE f[x]]
\* Mutant: the entry of a course does not count its assignments.
TimingEntryUncounted(t, d) ==
    IF t.error
    THEN [has |-> {"error"}, duration |-> 0, assignmentCount |-> 0]
    ELSE [has |-> {"duration", "assignmentCount"}, duration |-> d, assignmentCount |-> 0]

\* {courseName, duration, assignmentCount} or {courseName, error}; d is
\* courseEndTime - courseStartTime. A field the entry does not have is 0.
TimingEntry(t, d) ==
    IF t.error
    THEN [has |-> {"error"}, duration |-> 0, assignmentCount |-> 0]
    ELSE [has |-> {"duration", "assignmentCount"}, duration |-> d,
          assignmentCount |-> Len(t.result)]
\* courseEndTime - courseStartTime for two reads of a clock that may
\* advance by up to latest between them.
Elapsed(latest) ==
    {reads.end - reads.start :
        reads \in {r \in [start : 0..latest, end : 0..latest] : r.start <= r.end}}

\* assignmentResults.flat()
RECURSIVE Flat(_)
Flat(ts) == IF ts = <<>> THEN <<>> ELSE Head(ts).result \o Flat(Tail(ts))

\* announcements.sort((a, b) => new Date(b.posted_at) - new Date(a.posted_at));
\* an announcement's id stands for its time of posting.
RECURSIVE SortByPostedAt(_)
SortByPostedAt(items) ==
    IF items = <<>> THEN <<>>
    ELSE LET newest == Min({i \in 1..Len(items) :
                               \A j \in 1..Len(items) : items[j].id <= items[i].id})
         IN <<items[newest]>>
            \o SortByPostedAt(SubSeq(items, 1, newest - 1)
                              \o SubSeq(items, newest + 1, Len(items)))

\* Mutant: the announcements are requested together with the fan-out.
FanOutWithAnnouncements(cs) ==
    /\ tasks' = [i \in 1..Len(cs.items) |-> NewAssignmentsTask(cs.items[i])]
    /\ at' = "fanout"
    /\ sent' = sent \cup Endpoints(InFlight(tasks')) \cup {Top("announcements")}
    /\ inflight' = InFlight(tasks') \cup {Req(0, Top("announcements"))}

\* The fan-out starts: one task per course, each up to its await.
FanOut(cs) ==
    /\ tasks' = [i \in 1..Len(cs.items) |-> NewAssignmentsTask(cs.items[i])]
    /\ at' = "fanout"
    /\ sent' = sent \cup Endpoints(InFlight(tasks'))
    /\ inflight' = InFlight(tasks')

\* The assignments fetch awaited by the task of the i-th course has ended
\* after d on the clock: the task runs to its end; in dashboard and
\* current-assignments it writes its entry of the shared timing object.
AssignmentsTaskRun(i, d) ==
    LET t == tasks[i]
        f == IF route = "two-stage-data"
             THEN ServiceFetched(world, TaskEndpoint(t), DefaultOptions)
             ELSE Fetched(world, TaskEndpoint(t), DefaultOptions)
        next == AfterCourseAssignments(t, f)
    IN
    /\ route \in {"dashboard", "current-assignments", "two-stage-data"}
    /\ at = "fanout"
    /\ t.at # "done"
    /\ tasks' = [tasks EXCEPT ![i] = next]
    /\ allData' =
           IF route = "two-stage-data" THEN allData
           ELSE [allData EXCEPT !.byCourseDuration =
                                    Put(@, KeyOfCourse(t.courseData.course), TimingEntry(next, d))]
    /\ inflight' = {r \in inflight : r.task # i}
    /\ finished' = Append(finished, i)
    /\ UNCHANGED <<world, route, at, courses, sent, res, reply>>
    /\ UNCHANGED <<fetchVars, pureVars>>

\* The step of a task while the clock stands still.
AssignmentsTaskStep(i) == \E d \in Elapsed(0) : AssignmentsTaskRun(i, d)

AssignmentsTask == \E i \in 1..Len(tasks) : AssignmentsTaskStep(i)

\* ------------------------------------------------------------------ /api/dashboard
NewDashboardData ==
    [user |-> NoValue, courses |-> ArrayVal(<<>>), assignments |-> <<>>,
     announcements |-> ArrayVal(<<>>), byCourseDuration |-> <<>>]
\* dashboardData.user = { error: 'Failed to fetch user data' }
FailedUser ==
    [kind |-> "object", items |-> <<>>, id |-> 0,
     error |-> "Failed to fetch user data", status |-> 0]

InitDashboard == InitHandler("dashboard", PlainWorlds, NewDashboardData)

\* GET /api/dashboard arrives: up to the await of the user fetch.
DashboardReceive ==
    /\ route = "dashboard" /\ at = "start"
    /\ Await("user")
    /\ UNCHANGED <<world, route, courses, allData, tasks, finished, res, reply>>
    /\ UNCHANGED <<fetchVars, pureVars>>

\* The user fetch has ended: up to the await of the courses fetch.
DashboardUserFetched ==
    LET f == Fetched(world, Top("user"), DefaultOptions) IN
    /\ route = "dashboard" /\ at = "user"
    /\ allData' = [allData EXCEPT !.user = IF f.at = "thrown" THEN FailedUser ELSE f.result]
    /\ Await("courses")
    /\ UNCHANGED <<world, route, courses, tasks, finished, res, reply>>
    /\ UNCHANGED <<fetchVars, pureVars>>

\* The announcements section of the dashboard and what follows it, for a
\* report and the courses found: the await of the announcements fetch, or
\* the answer (courses.map(..) raising inside the guarded section, or no
\* course: announcements = []).
DashboardAnnouncements(report, cs) ==
    /\ allData' = report
    /\ IF AnnouncementsPlan(cs) = "request"
       THEN Await("announcements") /\ UNCHANGED <<res, reply>>
       ELSE Answer(200, ReportReply)

\* Mutant: the courses fetch is not guarded, its failure reaches the outer
\* catch.
DashboardCoursesFetchedUnguarded ==
    LET f == Fetched(world, Top("courses"), DefaultOptions)
        cs == f.result
        report == [allData EXCEPT !.courses = cs]
    IN
    /\ route = "dashboard" /\ at = "courses"
    /\ courses' = cs
    /\ IF f.at = "thrown" \/ cs.kind = "text"
       THEN allData' = report /\ Answer(500, FailureReply) /\ tasks' = tasks
       ELSE IF HasItems(cs)
       THEN allData' = report /\ FanOut(cs) /\ UNCHANGED <<res, reply>>
       ELSE DashboardAnnouncements(report, cs) /\ tasks' = tasks
    /\ UNCHANGED <<world, route, finished>>
    /\ UNCHANGED <<fetchVars, pureVars>>

\* The courses fetch has ended: the fan-out starts, or the handler goes on
\* to the announcements; a text has a length but no map, and the TypeError
\* reaches the outer catch.
DashboardCoursesFetched ==
    LET f == Fetched(world, Top("courses"), DefaultOptions)
        cs == IF f.at = "thrown" THEN ArrayVal(<<>>) ELSE f.result
        report == [allData EXCEPT !.courses = cs]
    IN
    /\ route = "dashboard" /\ at = "courses"
    /\ courses' = cs
    /\ IF cs.kind = "text"
       THEN allData' = report /\ Answer(500, FailureReply) /\ tasks' = tasks
       ELSE IF HasItems(cs)
       THEN allData' = report /\ FanOut(cs) /\ UNCHANGED <<res, reply>>
       ELSE DashboardAnnouncements(report, cs) /\ tasks' = tasks
    /\ UNCHANGED <<world, route, finished>>
    /\ UNCHANGED <<fetchVars, pureVars>>

\* Promise.all resolves: the lists are merged in input order and sorted,
\* and the handler goes on to the announcements.
DashboardJoin ==
    /\ route = "dashboard" /\ at = "fanout"
    /\ Settled(tasks)
    /\ DashboardAnnouncements(
           [allData EXCEPT !.assignments = SortByDue(Flat(Joined(tasks, finished)))], courses)
    /\ UNCHANGED <<world, route, courses, tasks, finished>>
    /\ UNCHANGED <<fetchVars, pureVars>>

\* The announcements fetch has ended: they are sorted (sort is no function
\* of the 403 marker: the TypeError is caught) and the handler answers.
DashboardAnnouncementsFetched ==
    LET f == Fetched(world, Top("announcements"), DefaultOptions) IN
    /\ route = "dashboard" /\ at = "announcements"
    /\ allData' = [allData EXCEPT !.announcements =
                       IF f.at = "thrown" \/ f.result.kind # "array"
                       THEN ArrayVal(<<>>)
                       ELSE ArrayVal(SortByPostedAt(f.result.items))]
    /\ Answer(200, ReportReply)
    /\ UNCHANGED <<world, route, courses, tasks, finished>>
    /\ UNCHANGED <<fetchVars, pureVars>>

\* ------------------------------------------------------------------ /api/current-assignments
NewCurrentAssignments == [assignments |-> <<>>, byCourseDuration |-> <<>>]

InitCurrentAssignments ==
    InitHandler("current-assignments", PlainWorlds, NewCurrentAssignments)

\* GET /api/current-assignments arrives: up to the await of the courses.
CurrentAssignmentsReceive ==
    /\ route = "current-assignments" /\ at = "start"
    /\ Await("courses")
    /\ UNCHANGED <<world, route, courses, allData, tasks, finished, res, reply>>
    /\ UNCHANGED <<fetchVars, pureVars>>

\* The courses fetch, which no try of its own guards, has ended: a raised
\* failure, or courses.map(..) on what is no array, reaches the catch of
\* the handler; otherwise the fan-out starts.
CurrentAssignmentsCoursesFetched ==
    LET f == Fetched(world, Top("courses"), DefaultOptions) IN
    /\ route = "current-assignments" /\ at = "courses"
    /\ IF f.at = "thrown" \/ f.result.kind # "array"
       THEN /\ Answer(500, FailureReply)
            /\ UNCHANGED <<courses, tasks>>
       ELSE /\ courses' = f.result
            /\ FanOut(f.result)
            /\ UNCHANGED <<res, reply>>
    /\ UNCHANGED <<world, route, allData, finished>>
    /\ UNCHANGED <<fetchVars, pureVars>>

\* Promise.all resolves: the lists are merged in input order and sorted,
\* and the handler answers.
CurrentAssignmentsJoin ==
    /\ route = "current-assignments" /\ at = "fanout"
    /\ Settled(tasks)
    /\ allData' = [allData EXCEPT !.assignments = SortByDue(Flat(Joined(tasks, finished)))]
    /\ Answer(200, ReportReply)
    /\ UNCHANGED <<world, route, courses, tasks, finished>>
    /\ UNCHANGED <<fetchVars, pureVars>>

\* ------------------------------------------------------------------ canvasService.getAnnouncements
\* getAnnouncements(courses): with no course it returns [] at once;
\* otherwise it awaits the announcements of the courses' contexts.
\* "empty" / "request" (courses is an array here).
GetAnnouncementsPlan(cs) == IF AnnouncementsPlan(cs) = "request" THEN "request" ELSE "empty"

NewServiceResult == [announcements |-> NoValue]
InitGetAnnouncements ==
    /\ InitHandler("getAnnouncements", {w \in PlainWorlds : ~w.sameId}, NewServiceResult)

\* canvasService.getAnnouncements(courses) is called with a course list:
\* up to its await or its return.
GetAnnouncementsCall ==
    LET cs == ArrayVal(Listing(world, Top("courses"))) IN
    /\ route = "getAnnouncements" /\ at = "start"
    /\ courses' = cs
    /\ IF GetAnnouncementsPlan(cs) = "empty"
       THEN /\ allData' = [allData EXCEPT !.announcements = ArrayVal(<<>>)]
            /\ at' = "returned"
            /\ UNCHANGED <<sent, inflight>>
       ELSE /\ Await("announcements")
            /\ UNCHANGED allData
    /\ UNCHANGED <<world, route, tasks, finished, res, reply>>
    /\ UNCHANGED <<fetchVars, pureVars>>

\* The announcements fetch has ended: its result is returned, its failure
\* raised to the caller.
GetAnnouncementsFetched ==
    LET f == ServiceFetched(world, Top("announcements"), DefaultOptions) IN
    /\ route = "getAnnouncements" /\ at = "announcements"
    /\ at' = f.at
    /\ allData' = [allData EXCEPT !.announcements = f.result]
    /\ inflight' = {}
    /\ UNCHANGED <<world, route, courses, tasks, sent, finished, res, reply>>
    /\ UNCHANGED <<fetchVars, pureVars>>

\* ------------------------------------------------------------------ /api/two-stage-data
NewTwoStageData ==
    [courses |-> <<>>, announcements |-> ArrayVal(<<>>),
     courseAssignments |-> <<>>, assignments |-> <<>>]

\* res.json({stage: 'complete', courses: [], announcements: [],
\* assignments: [], timing, error: 'No Spring 2025 courses found'})
NoCoursesReply ==
    [body |-> "No Spring 2025 courses found", details |-> FALSE, timing |-> TRUE]

InitTwoStage == InitHandler("two-stage-data", ServerWorlds, NewTwoStageData)

\* allCourses.filter(course => spring2025CourseIds.includes(course.id))
Spring2025(items, ids) == SelectSeq(items, LAMBDA course : course.id \in ids)

\* GET /api/two-stage-data arrives: getSpring2025Courses, up to the await
\* of the course list.
TwoStageReceive ==
    /\ route = "two-stage-data" /\ at = "start"
    /\ Await("courses")
    /\ UNCHANGED <<world, route, courses, allData, tasks, finished, res, reply>>
    /\ UNCHANGED <<fetchVars, pureVars>>

\* The course list has been fetched. Without configured ids the service
\* returns []; otherwise it filters the list (filter is no function of
\* what is no array). With no course left the handler answers at once;
\* otherwise it calls getAnnouncements, outside any try of its own.
TwoStageCoursesFetched ==
    LET f == ServiceFetched(world, Top("courses"), DefaultOptions)
        cs == IF world.spring = {} THEN ArrayVal(<<>>)
              ELSE ArrayVal(Spring2025(f.result.items, world.spring))
    IN
    /\ route = "two-stage-data" /\ at = "courses"
    /\ IF f.at = "thrown" \/ (world.spring # {} /\ f.result.kind # "array")
       THEN /\ Answer(500, FailureReply)
            /\ UNCHANGED courses
       ELSE /\ courses' = cs
            /\ IF GetAnnouncementsPlan(cs) = "empty"
               THEN Answer(200, NoCoursesReply)
               ELSE Await("announcements") /\ UNCHANGED <<res, reply>>
    /\ UNCHANGED <<world, route, allData, tasks, finished>>
    /\ UNCHANGED <<fetchVars, pureVars>>

\* getAnnouncements has ended: its failure, or sort(..) on what is no
\* array, reaches the catch of the handler; otherwise the announcements
\* are sorted, the courses processed and the second stage starts.
TwoStageAnnouncementsFetched ==
    LET f == ServiceFetched(world, Top("announcements"), DefaultOptions) IN
    /\ route = "two-stage-data" /\ at = "announcements"
    /\ IF f.at = "thrown" \/ f.result.kind # "array"
       THEN /\ Answer(500, FailureReply)
            /\ UNCHANGED <<allData, tasks>>
       ELSE /\ allData' = [allData EXCEPT !.announcements = ArrayVal(SortByPostedAt(f.result.items)),
                                          !.courses = courses.items]
            /\ FanOut(courses)
            /\ UNCHANGED <<res, reply>>
    /\ UNCHANGED <<world, route, courses, finished>>
    /\ UNCHANGED <<fetchVars, pureVars>>

\* What the task of a course returns: {course_id, .., assignments} or
\* {course_id, .., error}.
CourseAssignmentData(t) ==
    [course_id |-> t.courseData.course.id, assignments |-> t.result, error |-> t.error]

\* Promise.all resolves: the courses' entries are kept in input order,
\* their assignments merged and sorted, and the handler answers.
TwoStageJoin ==
    LET joined == Joined(tasks, finished) IN
    /\ route = "two-stage-data" /\ at = "fanout"
    /\ Settled(tasks)
    /\ allData' = [allData EXCEPT
                       !.courseAssignments = [i \in 1..Len(joined) |-> CourseAssignmentData(joined[i])],
                       !.assignments = SortByDue(Flat(joined))]
    /\ Answer(200, ReportReply)
    /\ UNCHANGED <<world, route, courses, tasks, finished>>
    /\ UNCHANGED <<fetchVars, pureVars>>

\* ------------------------------------------------------------------ /api/announcements
NewAnnouncements == [announcements |-> NoValue]

InitAnnouncements ==
    InitHandler("announcements", {w \in PlainWorlds : ~w.sameId}, NewAnnouncements)

\* GET /api/announcements arrives: up to the await of the courses fetch.
AnnouncementsReceive ==
    /\ route = "announcements" /\ at = "start"
    /\ Await("courses")
    /\ UNCHANGED <<world, route, courses, allData, tasks, finished, res, reply>>
    /\ UNCHANGED <<fetchVars, pureVars>>

\* The courses fetch has ended: a failure, or courses.map(..) on what is
\* no array, gives a 500; no course gives res.json([]); otherwise the
\* announcements are requested.
AnnouncementsCoursesFetched ==
    LET f == Fetched(world, Top("courses"), DefaultOptions) IN
    /\ route = "announcements" /\ at = "courses"
    /\ IF f.at = "thrown" \/ f.result.kind # "array"
       THEN /\ Answer(500, FailureReply)
            /\ UNCHANGED <<courses, allData>>
       ELSE /\ courses' = f.result
            /\ IF AnnouncementsPlan(f.result) = "empty"
               THEN /\ allData' = [allData EXCEPT !.announcements = ArrayVal(<<>>)]
                    /\ Answer(200, ReportReply)
               ELSE /\ Await("announcements")
                    /\ UNCHANGED <<allData, res, reply>>
    /\ UNCHANGED <<world, route, tasks, finished>>
    /\ UNCHANGED <<fetchVars, pureVars>>

\* The announcements fetch has ended: res.json(announcements), or a 500.
AnnouncementsRouteFetched ==
    LET f == Fetched(world, Top("announcements"), DefaultOptions) IN
    /\ route = "announcements" /\ at = "announcements"
    /\ IF f.at = "thrown"
       THEN Answer(500, FailureReply) /\ UNCHANGED allData
       ELSE /\ allData' = [allData EXCEPT !.announcements = f.result]
            /\ Answer(200, ReportReply)
    /\ UNCHANGED <<world, route, courses, tasks, finished>>
    /\ UNCHANGED <<fetchVars, pureVars>>

\* ------------------------------------------------------------------ the timed fan-out
\* The step of a task while the clock runs.
TimedAssignmentsTaskStep(i) == \E d \in Elapsed(MaxClock) : AssignmentsTaskRun(i, d)
TimedAssignmentsTask == \E i \in 1..Len(tasks) : TimedAssignmentsTaskStep(i)

\* One request of dashboard or current-assignments against an upstream
\* whose course list names every course once.
InitAssignments ==
    \/ InitHandler("dashboard", {w \in PlainWorlds : ~w.sameId}, NewDashboardData)
    \/ InitHandler("current-assignments", {w \in PlainWorlds : ~w.sameId}, NewCurrentAssignments)

NextAssignments ==
    \/ DashboardReceive
    \/ DashboardUserFetched
    \/ DashboardCoursesFetched
    \/ DashboardJoin
    \/ DashboardAnnouncementsFetched
    \/ CurrentAssignmentsReceive
    \/ CurrentAssignmentsCoursesFetched
    \/ CurrentAssignmentsJoin
    \/ TimedAssignmentsTask

SpecAssignments == InitAssignments /\ [][NextAssignments]_vars

\* ------------------------------------------------------------------ the server
\* One request of one of the aggregating routes, or one call of
\* getAnnouncements, against one upstream.
InitServer ==
    \/ InitHandler("all-data", PlainWorlds, NewReport)
    \/ InitDashboard
    \/ InitCurrentAssignments
    \/ InitTwoStage
    \/ InitAnnouncements
    \/ InitGetAnnouncements

NextServer ==
    \/ Receive
    \/ UserFetched
    \/ CoursesFetched
    \/ CourseTask
    \/ Join
    \/ AnnouncementsFetched
    \/ CalendarEventsFetched
    \/ ConversationsFetched
    \/ TodoFetched
    \/ DashboardReceive
    \/ DashboardUserFetched
    \/ DashboardCoursesFetched
    \/ DashboardJoin
    \/ DashboardAnnouncementsFetched
    \/ CurrentAssignmentsReceive
    \/ CurrentAssignmentsCoursesFetched
    \/ CurrentAssignmentsJoin
    \/ TwoStageReceive
    \/ TwoStageCoursesFetched
    \/ TwoStageAnnouncementsFetched
    \/ TwoStageJoin
    \/ AssignmentsTask
    \/ AnnouncementsReceive
    \/ AnnouncementsCoursesFetched
    \/ AnnouncementsRouteFetched
    \/ GetAnnouncementsCall
    \/ GetAnnouncementsFetched

SpecServer == InitServer /\ [][NextServer]_vars

\* Every upstream call ends: a handler or a task that stands at an await
\* is resumed.
SpecServerFair == SpecServer /\ WF_vars(NextServer)

\* ------------------------------------------------------------------ /api/grades and getCourseSubmissions
\* The upstream of the submissions fetches: nothing fails, the course list
\* fails, or the submissions of some courses fail with a 403, with a 500 or
\* with a page of text.
SubmissionsFaults(n) ==
    {NoFault}
    \cup [section : {"courses"}, status : {403, 500}, courses : {{}}]
    \cup [section : {"grades"}, status : {403, 500, 200}, courses : (SUBSET (1..n)) \ {{}}]
SubmissionsWorlds ==
    {w \in [n : 0..MaxCourses,
            nAssign : {0},
            fault : SubmissionsFaults(MaxCourses),
            sendsCourseId : {FALSE},
            sameId : {FALSE},
            spring : {{}}] :
        w.fault \in SubmissionsFaults(w.n)}

\* Mutant: the submissions are fetched without silentErrors.
SubmissionsOptionsLoud == DefaultOptions

\* { silentErrors: true }
SubmissionsOptions == SilentOptions

\* What /api/grades answers with, and what getCourseSubmissions returns.
NewGrades == [grades |-> <<>>, submissions |-> NoValue]
NewSubmissionsTask(course) ==
    [at |-> "grades", courseData |-> [course |-> course],
     result |-> <<>>, error |-> FALSE]
\* The submissions fetch of a course has ended in f: the entry holds the
\* submissions if they are an array, [] otherwise; the catch of the task
\* adds the error field.
AfterCourseSubmissions(t, f) ==
    IF f.at = "thrown"
    THEN [t EXCEPT !.at = "done", !.result = <<>>, !.error = TRUE]
    ELSE [t EXCEPT !.at = "done",
                   !.result = IF f.result.kind = "array" THEN f.result.items ELSE <<>>,
                   !.error = FALSE]
\* {course_id, .., submissions} or {course_id, .., submissions: [], error}
GradesEntry(t) ==
    [course_id |-> t.courseData.course.id, submissions |-> t.result, error |-> t.error]

InitGradesRoute == InitHandler("grades", SubmissionsWorlds, NewGrades)

GradesReceive ==
    /\ route = "grades" /\ at = "start"
    /\ Await("courses")
    /\ UNCHANGED <<world, route, courses, allData, tasks, finished, res, reply>>
    /\ UNCHANGED <<fetchVars, pureVars>>

\* The courses fetch has ended: courses.map(..) starts one task per course
\* (it raises a TypeError when courses is no array).
GradesCoursesFetched ==
    LET f == Fetched(world, Top("courses"), DefaultOptions) IN
    /\ route = "grades" /\ at = "courses"
    /\ IF f.at = "thrown" \/ f.result.kind # "array"
       THEN /\ Answer(500, FailureReply)
            /\ UNCHANGED <<courses, tasks>>
       ELSE /\ courses' = f.result
            /\ tasks' = [i \in 1..Len(f.result.items) |-> NewSubmissionsTask(f.result.items[i])]
            /\ at' = "fanout"
            /\ sent' = sent \cup Endpoints(InFlight(tasks'))
            /\ inflight' = InFlight(tasks')
            /\ UNCHANGED <<res, reply>>
    /\ UNCHANGED <<world, route, allData, finished>>
    /\ UNCHANGED <<fetchVars, pureVars>>

\* The submissions fetch of the i-th course ends and its task returns.
SubmissionsTaskStep(i) ==
    LET t == tasks[i] IN
    /\ route = "grades" /\ at = "fanout"
    /\ t.at # "done"
    /\ tasks' = [tasks EXCEPT ![i] =
                     AfterCourseSubmissions(t, Fetched(world, TaskEndpoint(t), SubmissionsOptions))]
    /\ inflight' = {r \in inflight : r.task # i}
    /\ finished' = Append(finished, i)
    /\ UNCHANGED <<world, route, at, courses, allData, sent, res, reply>>
    /\ UNCHANGED <<fetchVars, pureVars>>

SubmissionsTask == \E i \in 1..Len(tasks) : SubmissionsTaskStep(i)

\* Promise.all resolves: res.json(grades).
GradesJoin ==
    LET joined == Joined(tasks, finished) IN
    /\ route = "grades" /\ at = "fanout"
    /\ Settled(tasks)
    /\ allData' = [allData EXCEPT !.grades = [i \in 1..Len(joined) |-> GradesEntry(joined[i])]]
    /\ Answer(200, ReportReply)
    /\ UNCHANGED <<world, route, courses, tasks, finished>>
    /\ UNCHANGED <<fetchVars, pureVars>>

InitGetCourseSubmissions ==
    /\ InitHandler("getCourseSubmissions", {w \in SubmissionsWorlds : w.n > 0}, NewGrades)

\* canvasService.getCourseSubmissions(courseId) is called for a course: up
\* to its await.
GetCourseSubmissionsCall ==
    /\ route = "getCourseSubmissions" /\ at = "start"
    /\ \E c \in 1..world.n :
           tasks' = <<NewSubmissionsTask(Item(world, Top("courses"), c))>>
    /\ at' = "grades"
    /\ sent' = Endpoints(InFlight(tasks'))
    /\ inflight' = InFlight(tasks')
    /\ UNCHANGED <<world, route, courses, allData, finished, res, reply>>
    /\ UNCHANGED <<fetchVars, pureVars>>

\* The fetch has ended: its result is returned, a failure it raises goes
\* to the caller.
GetCourseSubmissionsFetched ==
    LET f == ServiceFetched(world, TaskEndpoint(tasks[1]), SubmissionsOptions) IN
    /\ route = "getCourseSubmissions" /\ at = "grades"
    /\ at' = f.at
    /\ allData' = [allData EXCEPT !.submissions = f.result]
    /\ inflight' = {}
    /\ UNCHANGED <<world, route, courses, tasks, sent, finished, res, reply>>
    /\ UNCHANGED <<fetchVars, pureVars>>

InitSubmissions ==
    \/ InitGradesRoute
    \/ InitGetCourseSubmissions

NextSubmissions ==
    \/ GradesReceive
    \/ GradesCoursesFetched
    \/ SubmissionsTask
    \/ GradesJoin
    \/ GetCourseSubmissionsCall
    \/ GetCourseSubmissionsFetched

SpecSubmissions == InitSubmissions /\ [][NextSubmissions]_vars

\* ------------------------------------------------------------------ one call or one request
\* One fetchAllPages call against any upstream, or one all-data request
\* for at most one course.
RetryWorlds == {w \in Worlds : w.n <= 1 /\ ~w.sendsCourseId}
InitRetry ==
    \/ InitFetch
    \/ InitHandler("all-data", RetryWorlds, NewReport)
NextRetry ==
    \/ NextFetch
    \/ NextAllData
SpecRetry == InitRetry /\ [][NextRetry]_vars

\* ------------------------------------------------------------------ the term filter of /api/current-term-grades
\* A term name is the sequence of its characters.
TermNames ==
    { <<"S", "p", "r", "i", "n", "g">>,
      <<"S", "P", "2", "5">>,
      <<"S", "u", "m", "m", "e", "r">>,
      <<"s", "u">>,
      <<"F", "a", "l", "l">>,
      <<"F", "A", "2", "4">>,
      <<"W", "i", "n", "t", "e", "r">>,
      <<"F", "a", "l", "l", " ", "S", "P">>,
      <<>> }
\* course.term: an object with a name, or none.
NoTerm == [present |-> FALSE, name |-> <<>>]
Terms == {NoTerm} \cup {[present |-> TRUE, name |-> n] : n \in TermNames}
TermCourses == UNION {[1..n -> Terms] : n \in 0..MaxCourses}
Months == 0..11

UpperCase == <<"A", "F", "P", "S", "U", "W">>
LowerCase == <<"a", "f", "p", "s", "u", "w">>
\* The i flag of the patterns: letters are compared in lower case.
Lower(c) ==
    IF \E i \in 1..Len(UpperCase) : UpperCase[i] = c
    THEN LowerCase[CHOOSE i \in 1..Len(UpperCase) : UpperCase[i] = c]
    ELSE c
\* The word occurs somewhere in the name, whatever the case of the name.
Contains(name, word) ==
    \E k \in 0..(Len(name) - Len(word)) :
        \A j \in 1..Len(word) : Lower(name[k + j]) = word[j]
\* pattern.test(name) for a pattern of alternatives.
Test(pattern, name) == \E word \in pattern : Contains(name, word)

\* /spring|sp/i, /summer|su/i, /fall|fa/i
SpringPattern == {<<"s", "p", "r", "i", "n", "g">>, <<"s", "p">>}
SummerPattern == {<<"s", "u", "m", "m", "e", "r">>, <<"s", "u">>}
FallPattern == {<<"f", "a", "l", "l">>, <<"f", "a">>}

\* Mutant: June counts as spring.
CurrentTermPatternLate(month) ==
    IF month >= 0 /\ month <= 5 THEN SpringPattern
    ELSE IF month >= 5 /\ month <= 6 THEN SummerPattern
    ELSE FallPattern

\* The pattern of the month (0-11).
CurrentTermPattern(month) ==
    IF month >= 0 /\ month <= 4 THEN SpringPattern
    ELSE IF month >= 5 /\ month <= 6 THEN SummerPattern
    ELSE FallPattern

\* courses.filter(course => ...)
InCurrentTerm(course, month) ==
    IF ~course.present THEN FALSE
    ELSE Test(CurrentTermPattern(month), course.name)
CurrentTermCourses(cs, month) ==
    SelectSeq([i \in 1..Len(cs) |-> [id |-> i, term |-> cs[i]]],
              LAMBDA c : InCurrentTerm(c.term, month))

InitTerm ==
    /\ arg \in [month : Months, courses : TermCourses]
    /\ out = [op |-> "none", value |-> <<>>]
    /\ NoRequest

\* The courses fetched are filtered in the month of the request.
FilterCurrentTerm ==
    /\ out.op = "none"
    /\ out' = [op |-> "term", value |-> CurrentTermCourses(arg.courses, arg.month)]
    /\ UNCHANGED arg
    /\ UNCHANGED <<fetchVars, handlerVars>>

NextTerm == FilterCurrentTerm

SpecTerm == InitTerm /\ [][NextTerm]_vars

\* ------------------------------------------------------------------ formatTime
\* The durations formatted: every whole number of hours up to MaxHours
\* with minutes and seconds at and next to their limits, exact to the
\* second or one millisecond short of the next.
Durations ==
    {((h * 3600 + m * 60 + s) * 1000) + r :
        h \in 0..MaxHours, m \in {0, 1, 59}, s \in {0, 1, 30, 59}, r \in {0, 999}}

\* One part of the text: a number followed by its unit.
Part(n, unit) == [n |-> n, unit |-> unit]

\* Mutant: the minutes are not reduced modulo 60 next to the hours.
FormatTimeAllMinutes(ms) ==
    LET seconds == ms \div 1000
        minutes == seconds \div 60
        hours == minutes \div 60
    IN
    IF hours > 0
    THEN <<Part(hours, "h"), Part(minutes, "m"), Part(seconds % 60, "s")>>
    ELSE IF minutes > 0
    THEN <<Part(minutes, "m"), Part(seconds % 60, "s")>>
    ELSE <<Part(seconds, "s")>>

\* formatTime(ms): the parts of the text, separated by blanks.
FormatTime(ms) ==
    LET seconds == ms \div 1000
        minutes == seconds \div 60
        hours == minutes \div 60
    IN
    IF hours > 0
    THEN <<Part(hours, "h"), Part(minutes % 60, "m"), Part(seconds % 60, "s")>>
    ELSE IF minutes > 0
    THEN <<Part(minutes, "m"), Part(seconds % 60, "s")>>
    ELSE <<Part(seconds, "s")>>

InitFormat ==
    /\ arg \in [ms : Durations]
    /\ out = [op |-> "none", value |-> <<>>]
    /\ NoRequest

\* formatTime is applied to a duration.
Format ==
    /\ out.op = "none"
    /\ out' = [op |-> "format", value |-> FormatTime(arg.ms)]
    /\ UNCHANGED arg
    /\ UNCHANGED <<fetchVars, handlerVars>>

NextFormat == Format

SpecFormat == InitFormat /\ [][NextFormat]_vars

\* ------------------------------------------------------------------ calls that run concurrently
\* The answers of the upstream to the requests of one call: array pages
\* with a next link, followed by a last answer.
NextLink == <<[rel |-> "next", url |-> AbsUrl(BaseHost, 1)]>>
LastAnswers(k) ==
    {ArrayResponse(PageItems(k, 1), <<>>), ObjectResponse(k, <<>>),
     ErrorResponse(403), ErrorResponse(500)}
ChainScripts ==
    UNION {{[k \in 1..n |-> IF k < n THEN ArrayResponse(PageItems(k, 1), NextLink) ELSE last] :
               last \in LastAnswers(n)} : n \in 1..MaxChain}
ConcurrentCalls ==
    [url : {PlainUrl}, options : {DefaultOptions, SilentOptions}, script : ChainScripts]

\* What a call keeps while it is suspended at an await: its arguments and
\* its locals (with the history of its requests).
Suspended(c, f, rq, sv, ll) ==
    [kind |-> "call", call |-> c, fetch |-> f, requests |-> rq, served |-> sv, lastLink |-> ll]

\* Mutant: allData is one variable for all calls: a call resumes with what
\* the call that ran meanwhile accumulated.
ResumedSharedAccumulator(p, f) == [p.fetch EXCEPT !.allData = f.allData]

\* The locals a suspended call p resumes with, f being the locals of the
\* call that ran meanwhile: its own (they are declared inside the function).
Resumed(p, f) == p.fetch

InitConcurrentCalls ==
    /\ call \in ConcurrentCalls
    /\ fetch = [FetchStart(call.url) EXCEPT !.at = "idle"]
    /\ requests = <<>>
    /\ served = <<>>
    /\ lastLink = <<>>
    /\ parked \in {Suspended(c, [FetchStart(c.url) EXCEPT !.at = "idle"], <<>>, <<>>, <<>>) :
                      c \in ConcurrentCalls}
    /\ NoHandler
    /\ NoFunction

\* The request of the running call is answered as its script says.
RespondScripted ==
    /\ parked.kind = "call"
    /\ Len(served) < Len(call.script)
    /\ Respond(call.script[Len(served) + 1])

\* The running call stands at an await, or has ended, and the other call
\* goes on.
SwitchCall ==
    /\ parked.kind = "call"
    /\ fetch.at # "idle"
    /\ parked.fetch.at \in {"idle", "await"}
    /\ parked' = Suspended(call, fetch, requests, served, lastLink)
    /\ call' = parked.call
    /\ fetch' = Resumed(parked, fetch)
    /\ requests' = parked.requests
    /\ served' = parked.served
    /\ lastLink' = parked.lastLink
    /\ UNCHANGED <<handlerVars, pureVars>>

\* ------------------------------------------------------------------ requests that are handled concurrently
\* The upstream of two requests: at most one course, no answer of text.
ConcurrentWorlds ==
    {w \in ServerWorlds : w.n <= 1 /\ ~w.sameId /\ w.fault.status # 200}
ConcurrentRoutes == {"all-data", "dashboard", "current-assignments", "two-stage-data"}
\* The report a handler starts with.
NewDataOf(r) ==
    IF r = "all-data" THEN NewReport
    ELSE IF r = "dashboard" THEN NewDashboardData
    ELSE IF r = "current-assignments" THEN NewCurrentAssignments
    ELSE NewTwoStageData
\* The variables of the handling of one request: a request that has just
\* arrived, and the one that is running.
Arrived(r) ==
    [route |-> r, at |-> "start", courses |-> ArrayVal(<<>>), allData |-> NewDataOf(r),
     tasks |-> <<>>, sent |-> {}, inflight |-> {}, finished |-> <<>>,
     res |-> 0, reply |-> NoReply]
Running ==
    [route |-> route, at |-> at, courses |-> courses, allData |-> allData,
     tasks |-> tasks, sent |-> sent, inflight |-> inflight, finished |-> finished,
     res |-> res, reply |-> reply]
\* What a request was answered with.
AnswerOf(q) == [res |-> q.res, reply |-> q.reply, body |-> q.allData]

\* A first request is handled alone; what it is answered with is kept.
InitConcurrentRequests ==
    /\ world \in ConcurrentWorlds
    /\ route \in ConcurrentRoutes \ (IF world.spring = {} THEN {} ELSE {"all-data", "dashboard", "current-assignments"})
    /\ at = "start"
    /\ courses = ArrayVal(<<>>)
    /\ allData = NewDataOf(route)
    /\ tasks = <<>>
    /\ sent = {}
    /\ inflight = {}
    /\ finished = <<>>
    /\ res = 0
    /\ reply = NoReply
    /\ call = [url |-> PlainUrl, options |-> DefaultOptions]
    /\ fetch = [FetchStart(PlainUrl) EXCEPT !.at = "off"]
    /\ requests = <<>>
    /\ served = <<>>
    /\ lastLink = <<>>
    /\ parked = [kind |-> "alone"]
    /\ NoFunction

\* The handler's variables become those of request q.
Resume(q) ==
    /\ route' = q.route
    /\ at' = q.at
    /\ courses' = q.courses
    /\ tasks' = q.tasks
    /\ sent' = q.sent
    /\ inflight' = q.inflight
    /\ finished' = q.finished
    /\ res' = q.res
    /\ reply' = q.reply

\* Mutant: the report is one object for all requests: a request resumes
\* with the report of the request that ran meanwhile.
ResumedReportShared(q, report) == report

\* The report a suspended request q resumes with, report being that of the
\* request that ran meanwhile: its own (it is created inside the handler).
ResumedReport(q, report) == q.allData

\* The first request has been answered: two requests of the same route
\* arrive, one starts to run.
TwoArrive ==
    /\ parked.kind = "alone"
    /\ res # 0
    /\ parked' = [kind |-> "request", request |-> Arrived(route), alone |-> AnswerOf(Running)]
    /\ Resume(Arrived(route))
    /\ allData' = NewDataOf(route)
    /\ UNCHANGED <<world, call, fetch, requests, served, lastLink, pureVars>>

\* The running request stands at an await, or has been answered, and the
\* other request goes on.
SwitchRequest ==
    /\ parked.kind = "request"
    /\ parked.request.res = 0
    /\ parked' = [parked EXCEPT !.request = Running]
    /\ Resume(parked.request)
    /\ allData' = ResumedReport(parked.request, allData)
    /\ UNCHANGED <<world, call, fetch, requests, served, lastLink, pureVars>>

InitConcurrent ==
    \/ InitConcurrentCalls
    \/ InitConcurrentRequests

NextConcurrent ==
    \/ FetchCall
    \/ RespondScripted
    \/ SwitchCall
    \/ Receive
    \/ UserFetched
    \/ CoursesFetched
    \/ CourseTask
    \/ Join
    \/ AnnouncementsFetched
    \/ CalendarEventsFetched
    \/ ConversationsFetched
    \/ TodoFetched
    \/ DashboardReceive
    \/ DashboardUserFetched
    \/ DashboardCoursesFetched
    \/ DashboardJoin
    \/ DashboardAnnouncementsFetched
    \/ CurrentAssignmentsReceive
    \/ CurrentAssignmentsCoursesFetched
    \/ CurrentAssignmentsJoin
    \/ TwoStageReceive
    \/ TwoStageCoursesFetched
    \/ TwoStageAnnouncementsFetched
    \/ TwoStageJoin
    \/ AssignmentsTask
    \/ TwoArrive
    \/ SwitchRequest

SpecConcurrent == InitConcurrent /\ [][NextConcurrent]_vars

\* ------------------------------------------------------------------ timing records
\* The handlers read the clock with Date.now() before and after a fetch.
\* t1, t2, t3 are the values of three successive reads of a clock that
\* never goes back; ok tells whether the fetch between them succeeded.
TimedKinds == {"section", "all-data section", "course", "two-stage course", "all-data course"}
Timed3 ==
    {x \in [kind : TimedKinds, ok : BOOLEAN,
            t1 : 0..MaxClock, t2 : 0..MaxClock, t3 : 0..MaxClock] :
        x.t1 <= x.t2 /\ x.t2 <= x.t3}

\* A timing record of a response: the fields it has and their values.
TimingRecord(has, start, end, duration) ==
    [has |-> has, start |-> start, end |-> end, duration |-> duration]
NoTimingRecord == TimingRecord({}, 0, 0, 0)

\* timings.user of dashboard, and the sections of current-assignments and
\* two-stage-data alike: start and end are read around the guarded fetch.
SectionTiming(x) ==
    TimingRecord({"start", "end", "duration"}, x.t1, x.t2, x.t2 - x.t1)

\* allData.timing.sections.user of all-data: written after the await,
\* inside the try; the catch block writes no timing.
AllDataSectionTiming(x) ==
    IF x.ok THEN TimingRecord({"duration"}, 0, 0, x.t2 - x.t1) ELSE NoTimingRecord

\* byCourseDuration[course.id] of dashboard and current-assignments:
\* {courseName, duration, assignmentCount}, or {courseName, error}.
CourseTiming(x) ==
    IF x.ok THEN TimingRecord({"duration"}, 0, 0, x.t2 - x.t1) ELSE NoTimingRecord

\* timing.courseTimeMs of a course entry of two-stage-data; the entry of a
\* failed course has no timing.
TwoStageCourseTiming(x) ==
    IF x.ok THEN TimingRecord({"duration"}, 0, 0, x.t2 - x.t1) ELSE NoTimingRecord

\* courseData.timing of all-data: courseStartTime and timing.startTime are
\* two reads of the clock, and totalTimeMs = endTime - courseStartTime. The
\* task catches every failure and always writes the record.
AllDataCourseTiming(x) ==
    TimingRecord({"start", "end", "duration"}, x.t2, x.t3, x.t3 - x.t1)

InitTiming ==
    /\ arg \in Timed3
    /\ out = [op |-> "none", value |-> <<>>]
    /\ NoRequest

\* The timing code around one fetch runs.
Time(kind, record) ==
    /\ out.op = "none"
    /\ arg.kind = kind
    /\ out' = [op |-> "timing", value |-> record]
    /\ UNCHANGED arg
    /\ UNCHANGED <<fetchVars, handlerVars>>

TimeSection == Time("section", SectionTiming(arg))
TimeAllDataSection == Time("all-data section", AllDataSectionTiming(arg))
TimeCourse == Time("course", CourseTiming(arg))
TimeTwoStageCourse == Time("two-stage course", TwoStageCourseTiming(arg))
TimeAllDataCourse == Time("all-data course", AllDataCourseTiming(arg))

NextTiming ==
    \/ TimeSection
    \/ TimeAllDataSection
    \/ TimeCourse
    \/ TimeTwoStageCourse
    \/ TimeAllDataCourse

SpecTiming == InitTiming /\ [][NextTiming]_vars

\* ------------------------------------------------------------------ vocabulary of the claims
Done == fetch.at \in {"returned", "thrown"}
LastServed == served[Len(served)]
AllArrays == \A i \in 1..Len(served) : served[i].type = "array"

RECURSIVE ConcatBodies(_)
ConcatBodies(s) == IF s = <<>> THEN <<>> ELSE s[1].body.items \o ConcatBodies(Tail(s))

\* The header has a rel="next" entry / one that carries a URL.
HasNextEntry(link) == \E i \in 1..Len(link) : link[i].rel = "next"
CarriesNext(link) == \E i \in 1..Len(link) : link[i].rel = "next" /\ link[i].url # NullUrl
\* The last page received is empty or shorter than the per_page of the URL.
ShortLast ==
    \/ Len(LastServed.body.items) = 0
    \/ (call.url.pp = "num" /\ Len(LastServed.body.items) < call.url.n)

\* The call has ended on a chain of array pages that is no longer than
\* maxPages and whose links are well formed.
ChainFetched ==
    /\ Done /\ served # <<>> /\ AllArrays
    /\ HasNextEntry(lastLink) => CarriesNext(lastLink)
    /\ ~(fetch.pageCount = call.options.maxPages /\ CarriesNext(lastLink))
WholeChainReturned ==
    /\ fetch.at = "returned"
    /\ fetch.result = ArrayVal(ConcatBodies(served))
    /\ ~HasNextEntry(lastLink)
    /\ Len(requests) = Len(served)

\* C1 as stated: for every finite chain of array pages with well-formed next
\* links, no longer than maxPages and without failing request, the call
\* returns all pages of the chain concatenated in order, the last page
\* fetched being the one that carries no next link.
C1_AsStated == ChainFetched => WholeChainReturned

\* C1 (amended): the same, for chains in which no page that carries a next
\* link is empty or holds fewer items than the per_page of the requested URL.
C1_ChainConcatenated ==
    (ChainFetched /\ ~(CarriesNext(lastLink) /\ ShortLast)) => WholeChainReturned

\* A chain of two pages was fetched to its end and returned whole.
C1_Witness ==
    /\ ChainFetched /\ Len(served) = 2 /\ ~HasNextEntry(lastLink)
    /\ Len(fetch.result.items) >= 2
    /\ fetch.pageCount < call.options.maxPages

\* The chain goes on after the last page received, and the call has ended.
ChainGoesOn == Done /\ served # <<>> /\ AllArrays /\ CarriesNext(lastLink)
StoppedByCap ==
    /\ fetch.at = "returned"
    /\ fetch.pageCount = call.options.maxPages
    /\ Len(requests) = call.options.maxPages
    /\ Len(served) = call.options.maxPages
    /\ fetch.result = ArrayVal(ConcatBodies(served))
RequestsBounded ==
    /\ Len(requests) <= call.options.maxPages
    /\ fetch.pageCount <= call.options.maxPages
    /\ Len(requests) = fetch.pageCount

\* C2 as stated: never more than maxPages requests, and on a chain longer
\* than maxPages exactly maxPages pages are fetched and returned concatenated.
C2_AsStated == RequestsBounded /\ (ChainGoesOn => StoppedByCap)

\* C2 (amended): never more than maxPages requests; on a chain longer than
\* maxPages none of whose first maxPages pages is empty or shorter than
\* per_page, exactly maxPages pages are fetched and returned concatenated.
C2_PageCap == RequestsBounded /\ ((ChainGoesOn /\ ~ShortLast) => StoppedByCap)

\* The default cap of 10 pages stopped a chain that went on.
C2_Witness ==
    /\ ChainGoesOn /\ ~ShortLast
    /\ call.options.maxPages = DefaultMaxPages /\ Len(requests) = DefaultMaxPages

\* An array page whose Link header is missing, has no rel="next" entry, or
\* whose next entry has no URL, ends the call with the items received so far.
NoMorePages ==
    (served # <<>> /\ LastServed.type = "array" /\ ~CarriesNext(lastLink)) =>
        /\ fetch.at = "returned"
        /\ fetch.result = ArrayVal(ConcatBodies(served))
        /\ Len(requests) = Len(served)

\* Every step of a call ends it or counts one more page.
EndsOrCounts == fetch'.at \in {"returned", "thrown"} \/ fetch'.pageCount > fetch.pageCount

\* C3: a missing or malformed continuation ends pagination as "no more
\* pages" with the accumulated items, and no call runs forever, whatever the
\* upstream answers (links back to pages already fetched included): every
\* step ends the call or counts one more page, of which there are at most
\* maxPages.
C3_Terminates == [](NoMorePages /\ RequestsBounded) /\ [][EndsOrCounts]_vars

\* The call ended on a next entry without URL, after a link back to the
\* page it started from.
C3_Witness ==
    /\ fetch.at = "returned" /\ Len(served) = 2 /\ AllArrays
    /\ HasNextEntry(lastLink) /\ ~CarriesNext(lastLink)
    /\ requests[2] = requests[1]

\* C4: when the body of the first page is a single object, the call returns
\* exactly that object after one request, whatever the Link header says.
C4_ObjectShortCircuit ==
    (served # <<>> /\ served[1].type = "object") =>
        /\ fetch.at = "returned"
        /\ fetch.result = served[1].body
        /\ Len(requests) = 1
        /\ Len(served) = 1

\* An object was returned although its response carried a next link.
C4_Witness ==
    /\ served # <<>> /\ served[1].type = "object" /\ CarriesNext(lastLink)
    /\ fetch.at = "returned" /\ call.options.maxPages > 1

\* C5: with silentErrors the call never raises and never returns the error
\* marker; a failed request on any page makes it return the empty sequence.
C5_SilentErrors ==
    call.options.silentErrors =>
        /\ fetch.at # "thrown"
        /\ fetch.result # PermissionDenied
        /\ (served # <<>> /\ LastServed.type = "error") =>
               (fetch.at = "returned" /\ fetch.result = ArrayVal(<<>>))

\* A request for a later page failed (not a 403) under silentErrors.
C5_Witness ==
    /\ call.options.silentErrors /\ Len(served) = 2
    /\ LastServed.type = "error" /\ LastServed.status # 403
    /\ fetch.allData # <<>> /\ Done

\* C6: without silentErrors a 403 makes the call return the marker
\* {error: 'Permission denied', status: 403}; it is not raised.
C6_DeniedMarker ==
    (~call.options.silentErrors /\ served # <<>>
        /\ LastServed.type = "error" /\ LastServed.status = 403) =>
        (fetch.at = "returned" /\ fetch.result = PermissionDenied)

\* A 403 was answered to a call without silentErrors.
C6_Witness ==
    /\ ~call.options.silentErrors /\ served # <<>> /\ Done
    /\ LastServed.type = "error" /\ LastServed.status = 403

\* C7: without silentErrors a failure other than a 403 is raised to the
\* caller; nothing is returned.
C7_FailurePropagates ==
    (~call.options.silentErrors /\ served # <<>>
        /\ LastServed.type = "error" /\ LastServed.status # 403) =>
        (fetch.at = "thrown" /\ fetch.result = NoValue)

\* An HTTP 500 was answered to a call without silentErrors.
C7_Witness ==
    /\ ~call.options.silentErrors /\ served # <<>> /\ Done
    /\ LastServed.type = "error" /\ LastServed.status = 500

\* ------------------------------------------------------------------ claims about /api/all-data
Answered == at = "done"
InErrors(section) == \E i \in 1..Len(allData.errors) : allData.errors[i] = section
\* The assignments the upstream lists for course c, and the submissions of
\* its i-th assignment.
UpstreamAssignments(c) == Listing(world, Endpoint("assignments", c, 0))
UpstreamSubmissions(c, i) == Listing(world, Endpoint("submissions", c, i))
UpstreamModules(c) == Listing(world, Endpoint("modules", c, 0))

\* The report lists the courses of the upstream in order.
CoursesReported ==
    /\ Len(allData.courses) = world.n
    /\ \A c \in 1..world.n : allData.courses[c].course = Item(world, Top("courses"), c)

\* The entry of course c holds all assignments of c, each with its
\* submissions, as the upstream sent them.
AssignmentsUnderCourse(c) ==
    /\ Len(allData.courses[c].assignments) = Len(UpstreamAssignments(c))
    /\ \A i \in 1..Len(UpstreamAssignments(c)) :
           /\ allData.courses[c].assignments[i].assignment = UpstreamAssignments(c)[i]
           /\ allData.courses[c].assignments[i].submissions = UpstreamSubmissions(c, i)
\* Every assignment in the entry of course c carries course_id = c.
AnnotatedWithCourse(c) ==
    \A i \in 1..Len(allData.courses[c].assignments) :
        allData.courses[c].assignments[i].assignment.course_id = c

\* Exactly one course's modules fetch fails (403 or other).
OneModulesFailure ==
    world.fault.section = "modules" /\ Cardinality(world.fault.courses) = 1

\* C8: when exactly one course's modules fetch fails, in whatever way, that
\* course is reported with accessibleData.modules = false and modules = [],
\* every other course keeps its modules with accessibleData.modules = true,
\* and the assignments of all courses are present under their own course.
C8_ModulesFailureIsolated ==
    (Answered /\ OneModulesFailure) =>
        /\ CoursesReported
        /\ \A c \in 1..world.n :
               /\ c \in world.fault.courses =>
                      /\ allData.courses[c].accessibleData["modules"] = "false"
                      /\ allData.courses[c].modules = ArrayVal(<<>>)
               /\ c \notin world.fault.courses =>
                      /\ allData.courses[c].accessibleData["modules"] = "true"
                      /\ allData.courses[c].modules = ArrayVal(UpstreamModules(c))
               /\ AssignmentsUnderCourse(c)

\* Some courses' assignments fetch fails with an error that is no 403.
SomeAssignmentsFail ==
    world.fault.section = "assignments" /\ world.fault.status # 403
EndToEnd ==
    /\ res = 200
    /\ CoursesReported
    /\ allData.errors = <<>>
    /\ \A c \in 1..world.n :
           /\ c \in world.fault.courses =>
                  /\ allData.courses[c].accessibleData["assignments"] = "false"
                  /\ allData.courses[c].assignments = <<>>
           /\ c \notin world.fault.courses =>
                  /\ allData.courses[c].accessibleData["assignments"] = "true"
                  /\ AssignmentsUnderCourse(c)

FetchFailed(section) == Top(section) \in sent /\ Fails(world, Top(section))

\* C10: a top-level section whose fetch fails, in whatever way, is recorded
\* with accessibleData[section] = false and an entry in errors, and
\* accessibleData[section] = true only when its fetch did not fail.
C10_SectionFailureRecorded ==
    Answered =>
        \A section \in TopSections :
            /\ FetchFailed(section) =>
                   (allData.accessibleData[section] = "false" /\ InErrors(section))
            /\ allData.accessibleData[section] = "true" => ~FetchFailed(section)

\* ------------------------------------------------------------------ claims about the failure paths
\* The handling of the request left the try block by an exception raised
\* outside the guarded fetches (the outer catch block was entered).
FailedOutside == route = "all-data" /\ at = "caught"

\* C11: when the handling of all-data fails outside every individually
\* guarded fetch, the handler answers with a 500 response that carries the
\* details message of the error and the elapsed time up to the failure.
C11_SetupFailureAnswered ==
    FailedOutside => (res = 500 /\ reply.body = "failure" /\ reply.details /\ reply.timing)

\* ------------------------------------------------------------------ claims about the fan-out
InFanOut == route = "all-data" /\ at = "fanout"
InFlightOf(i) == {r \in inflight : r.task = i}
\* The position in the assignment list of task i of the assignment whose
\* submissions request r asks for.
PositionOf(i, r) ==
    CHOOSE j \in 1..Len(tasks[i].assignments.items) :
        tasks[i].assignments.items[j].id = r.endpoint.assignment
\* A submissions request is in flight only when the submissions of all
\* earlier assignments of the course have been answered and stored.
SubmissionsInTurn ==
    \A r \in inflight :
        r.endpoint.section = "submissions" =>
            Len(tasks[r.task].courseData.assignments) = PositionOf(r.task, r) - 1

\* C19: within one course of the all-data fan-out at most one request of
\* the course's task is in flight at every moment, the submissions of
\* assignment k+1 are requested only after those of assignment k have been
\* answered, and so the requests in flight during the fan-out never
\* outnumber the courses.
C19_SubmissionsSequential ==
    InFanOut =>
        /\ \A i \in 1..Len(tasks) : Cardinality(InFlightOf(i)) <= 1
        /\ SubmissionsInTurn
        /\ Cardinality(inflight) <= Len(courses.items)

\* Two courses are in their submission loops at once, one of them at its
\* second assignment.
C19_Witness ==
    /\ InFanOut /\ Len(tasks) = 2
    /\ tasks[1].at = "submissions" /\ tasks[1].k = 2
    /\ tasks[2].at = "submissions"
    /\ Cardinality(inflight) = 2

\* ------------------------------------------------------------------ claims about grade extraction
Extracted == out.op = "grade"
Students == {i \in 1..Len(arg.enrollments) : arg.enrollments[i].type = "student"}
FirstStudent == arg.enrollments[Min(Students)]

\* C16: the grade of a course is taken from its first enrollment of type
\* 'student': the current score when the enrollment carries the
\* current-score field, otherwise the final score when it carries the
\* final-score field; without enrollments, without student enrollment or
\* without either score field the grade and the grade letter are null.
C16_GradeExtraction ==
    Extracted =>
        IF ~arg.listed \/ Students = {}
        THEN out.value.grade = Null /\ out.value.grade_letter = Null
        ELSE IF FirstStudent.computed_current_score # Undefined
        THEN out.value.grade = FirstStudent.computed_current_score
        ELSE IF FirstStudent.computed_final_score # Undefined
        THEN out.value.grade = FirstStudent.computed_final_score
        ELSE out.value.grade = Null /\ out.value.grade_letter = Null

\* The student enrollment comes second and carries both scores, 91 and 85:
\* the grade is 91.
C16_Witness ==
    /\ Extracted /\ Len(arg.enrollments) = 2
    /\ arg.enrollments[1].type = "teacher" /\ arg.enrollments[2].type = "student"
    /\ arg.enrollments[2].computed_current_score = "91"
    /\ arg.enrollments[2].computed_final_score = "85"
    /\ out.value.grade = "91"

\* ------------------------------------------------------------------ claims about the sort by due date
Sorted == out.op = "sort"
Compared == out.op = "compare"
Dated(a) == a.due_at # NoDue
\* Every item of the one list is an item of the other, as often.
PermutationOf(s, t) ==
    /\ Len(s) = Len(t)
    /\ \A x \in {s[i] : i \in 1..Len(s)} \cup {t[i] : i \in 1..Len(t)} :
           Cardinality({i \in 1..Len(s) : s[i] = x}) = Cardinality({i \in 1..Len(t) : t[i] = x})
\* For positions i < j both items are dated with date[i] <= date[j], or
\* the item at j has no due date.
AscendingNullsLast(s) ==
    \A i, j \in 1..Len(s) :
        i < j => \/ Dated(s[i]) /\ Dated(s[j]) /\ s[i].due_at <= s[j].due_at
                 \/ ~Dated(s[j])

\* C14: the merged assignment list is sorted ascending by due date with
\* every assignment without due date after all dated ones, and the sorted
\* list is a permutation of the merged list.
C14_SortedByDue ==
    Sorted => (AscendingNullsLast(out.value) /\ PermutationOf(out.value, arg))

\* The due dates [null, 3, 1] were sorted to [1, 3, null].
C14_Witness ==
    /\ Sorted
    /\ [i \in 1..Len(arg) |-> arg[i].due_at] = <<NoDue, 3, 1>>
    /\ [i \in 1..Len(out.value) |-> out.value[i].due_at] = <<1, 3, NoDue>>

Sign(x) == IF x < 0 THEN -1 ELSE IF x > 0 THEN 1 ELSE 0
\* C15: the comparison is a total order in which a missing due date is
\* greater than any date: compare(a, b) and compare(b, a) have opposite
\* signs or are both zero, two assignments without due date compare as
\* equal, and the comparison is transitive.
C15_TotalOrder ==
    Compared =>
        \A i, j \in 1..Len(arg) :
            /\ Sign(out.value[i][j]) = -Sign(out.value[j][i])
            /\ (~Dated(arg[i]) /\ ~Dated(arg[j])) => out.value[i][j] = 0
            /\ (~Dated(arg[i]) /\ Dated(arg[j])) => out.value[i][j] > 0
            /\ \A k \in 1..Len(arg) :
                   (out.value[i][j] <= 0 /\ out.value[j][k] <= 0) => out.value[i][k] <= 0

\* ------------------------------------------------------------------ claims about the aggregating handlers
Composite == route \in {"all-data", "dashboard", "two-stage-data", "current-assignments"}
Ended == at \in {"done", "caught"}
\* The fetch of a top-level section was issued and the upstream answers it
\* with a failure (403 or other).
Failed(section) ==
    /\ Top(section) \in sent
    /\ Fails(world, Top(section))
    /\ world.fault.status # 200
\* The endpoints of single courses requested so far.
PerCourseSent == {e \in sent : e.course # 0}
\* The sections that do not depend on the courses have been requested.
IndependentSent ==
    route = "all-data" =>
        {Top("calendarEvents"), Top("conversations"), Top("todo")} \subseteq sent
\* Every stage after the user fetch has run.
LaterStagesRan ==
    /\ Top("courses") \in sent
    /\ \A i \in 1..world.n : Endpoint("assignments", i, 0) \in sent
    /\ world.n > 0 => Top("announcements") \in sent
    /\ IndependentSent

\* C12: when the course list fetch of all-data or dashboard fails, the
\* per-course fan-out issues no request, the fetches that do not depend on
\* the courses are still issued and the request ends with a success
\* response; a failed user fetch prevents no later stage from running.
C12_CoursesFailureSkipsFanOut ==
    route \in {"all-data", "dashboard"} =>
        /\ Failed("courses") =>
               /\ PerCourseSent = {} /\ tasks = <<>>
               /\ at # "caught" /\ res \in {0, 200}
               /\ at = "done" => (res = 200 /\ IndependentSent)
               /\ at # "done" => ENABLED NextServer
        /\ Failed("user") =>
               /\ at # "caught" /\ res \in {0, 200}
               /\ at = "done" => (res = 200 /\ LaterStagesRan)
               /\ at # "done" => ENABLED NextServer

\* all-data has answered with a success although its course list fetch
\* had failed with a 500.
C12_Witness ==
    /\ route = "all-data" /\ at = "done" /\ res = 200
    /\ Failed("courses") /\ world.fault.status = 500 /\ world.n = 2
    /\ Top("todo") \in sent

\* Some fetch of the handler was answered with data.
SomeFetchReturnedData ==
    \E e \in sent \ Endpoints(inflight) : ~Fails(world, e)

\* C13: every composite handler answers with a success status whenever at
\* least one of its data fetches returned data; the failure of a single
\* fetch after another fetch has succeeded never makes the response a 500.
C13_PartialSuccess ==
    (Composite /\ Ended /\ SomeFetchReturnedData) => res = 200

\* The course set the announcements depend on is empty.
EmptyCourseSet == courses.kind = "array" /\ Len(courses.items) = 0

\* C17: getAnnouncements called with an empty course list returns [] and
\* issues no upstream request, and so does the announcements stage of
\* all-data, dashboard and /api/announcements when the course set is empty:
\* the announcements are requested only for a course set that is not empty.
C17_NoCoursesNoRequest ==
    /\ Top("announcements") \in sent => HasItems(courses)
    /\ (route = "getAnnouncements" /\ at = "returned" /\ EmptyCourseSet) =>
           (allData.announcements = ArrayVal(<<>>) /\ sent = {})
    /\ (route \in {"all-data", "dashboard", "announcements"} /\ at = "done" /\ EmptyCourseSet) =>
           allData.announcements = ArrayVal(<<>>)

\* getAnnouncements has returned [] for an empty course list without any
\* request.
C17_Witness ==
    /\ route = "getAnnouncements" /\ at = "returned" /\ EmptyCourseSet
    /\ allData.announcements = ArrayVal(<<>>) /\ sent = {} /\ inflight = {}

\* The assignments listed in an entry come from the course with this id.
FromCourse(assignments, id) ==
    \A k \in 1..Len(assignments) : assignments[k].from.course = id
\* The fan-out of the handler has been joined.
AllDataJoined ==
    route = "all-data" /\ tasks # <<>> /\ at \notin {"fanout", "caught"}
TwoStageJoined == route = "two-stage-data" /\ tasks # <<>> /\ at = "done"

\* C18: after the join of the per-course fan-out the result at position i
\* belongs to course i of the input course list, whatever order the tasks
\* ended in.
C18_InputOrder ==
    /\ AllDataJoined =>
           /\ Len(allData.courses) = Len(courses.items)
           /\ \A i \in 1..Len(courses.items) :
                  /\ allData.courses[i].course = courses.items[i]
                  /\ \A k \in 1..Len(allData.courses[i].assignments) :
                         allData.courses[i].assignments[k].assignment.from.course
                             = courses.items[i].id
    /\ TwoStageJoined =>
           /\ Len(allData.courseAssignments) = Len(courses.items)
           /\ \A i \in 1..Len(courses.items) :
                  /\ allData.courseAssignments[i].course_id = courses.items[i].id
                  /\ FromCourse(allData.courseAssignments[i].assignments, courses.items[i].id)

\* The task of the second course ended before that of the first, and the
\* report lists the courses in input order.
C18_Witness ==
    /\ AllDataJoined /\ at = "done" /\ finished = <<2, 1>>
    /\ ~world.sameId /\ world.nAssign = 2
    /\ allData.courses[1].course.id = 1 /\ allData.courses[2].course.id = 2

\* The keys of the shared timing object written so far, and the ids of the
\* courses whose tasks have ended.
WrittenKeys == DOMAIN allData.byCourseDuration
FinishedIds == {courses.items[finished[k]].id : k \in 1..Len(finished)}
Timed == route \in {"dashboard", "current-assignments"}
\* In all-data every task holds the courseData of its own course, and the
\* report is not written while the tasks run.
OwnCourseData ==
    (route = "all-data" /\ at = "fanout") =>
        /\ allData.courses = <<>>
        /\ \A i \in 1..Len(tasks) : tasks[i].courseData.course = courses.items[i]

\* C20 as stated: no two per-course tasks ever write the same key, for
\* every course list the upstream can return: every task that has ended
\* has written a key of its own.
C20_AsStated ==
    /\ Timed => Cardinality(WrittenKeys) = Len(finished)
    /\ OwnCourseData

\* C20 (amended): each task writes only the slice of its own course, its
\* courseData in all-data and byCourseDuration[course id] in dashboard and
\* current-assignments; two tasks write the same key only when the course
\* list names the same course id in both their entries.
C20_OwnSlice ==
    /\ Timed => WrittenKeys = FinishedIds
    /\ OwnCourseData

\* The course list named one course twice and both tasks have written the
\* one key of that course.
C20_Witness ==
    /\ Timed /\ world.sameId /\ Len(finished) = 2
    /\ Cardinality(WrittenKeys) = 1

\* ------------------------------------------------------------------ claims about the stages of a request
\* A fan-out has started and its join has resolved.
PastJoin == tasks # <<>> /\ at # "fanout"

\* C21: the handler proceeds past the join of a per-course fan-out only
\* after every task has run to completion: past the join every task has
\* returned, no per-course request is in flight and none is issued any more.
C21_JoinAfterAllTasks ==
    /\ [](PastJoin => (Settled(tasks) /\ OfTasks(inflight) = {}))
    /\ [][PastJoin => PerCourseSent' = PerCourseSent]_vars

\* The task of the first course ended first, with a failed assignments
\* fetch; the join resolved only after the second task had ended as well.
C21_Witness ==
    /\ PastJoin /\ route \in {"all-data", "dashboard"}
    /\ Len(tasks) = 2 /\ finished = <<1, 2>>
    /\ Fails(world, Endpoint("assignments", 1, 0))
    /\ ~Fails(world, Endpoint("assignments", 2, 0))

\* The stage of a request in the order of the specification: user, course
\* list, per-course fan-out, top-level resources.
Stage(e) ==
    IF e.course # 0 THEN 3
    ELSE IF e.section = "user" THEN 1
    ELSE IF e.section = "courses" THEN 2
    ELSE 4
\* The stage of a request in the handler of a route: two-stage-data
\* fetches the announcements in its first stage, before the fan-out.
StageIn(r, e) ==
    IF r = "two-stage-data" /\ e.course = 0 /\ e.section = "announcements" THEN 2
    ELSE Stage(e)
\* The requests issued by a step.
Issued == sent' \ sent
\* The top-level resources are requested only after the join of a fan-out
\* that has started.
TopLevelAfterJoin ==
    (\E e \in sent : Stage(e) = 4) => Settled(tasks)

TimingWritten == out.op = "timing"
Has(field) == field \in out.value.has

\* C23: with a clock that never goes back, every timing record of a
\* response satisfies start <= end and duration = end - start, and a timing
\* record is present for every section and every course of the fan-out,
\* those whose fetch failed included.
C23_TimingRecords ==
    TimingWritten =>
        /\ Has("duration")
        /\ (Has("start") /\ Has("end")) =>
               /\ out.value.start <= out.value.end
               /\ out.value.duration = out.value.end - out.value.start

\* ------------------------------------------------------------------ claims about the merged assignments
Merging == route \in {"dashboard", "current-assignments", "two-stage-data"}
\* What the assignments fetch of the i-th course of the handler returned,
\* each assignment with the name, the code and the id of that course.
ReturnedFor(i) ==
    LET c == courses.items[i]
        e == Endpoint("assignments", c.id, 0)
    IN IF Fails(world, e) THEN <<>>
       ELSE [k \in 1..Count(world, e) |->
                [Item(world, e, k) EXCEPT !.course_name = c.name,
                                          !.course_code = c.course_code,
                                          !.course_id = c.id]]
RECURSIVE ReturnedUpTo(_)
ReturnedUpTo(n) == IF n = 0 THEN <<>> ELSE ReturnedUpTo(n - 1) \o ReturnedFor(n)
Merged == Merging /\ at = "done" /\ tasks # <<>>

\* C24: every assignment in the output of dashboard, current-assignments
\* and two-stage-data carries the course_id, course_name and course_code of
\* the course whose fetch returned it, in every interleaving of the tasks,
\* and the output holds each returned assignment once per fetch that
\* returned it.
C24_AnnotatedMerge ==
    Merged =>
        /\ PermutationOf(allData.assignments, ReturnedUpTo(Len(courses.items)))
        /\ \A k \in 1..Len(allData.assignments) :
               LET a == allData.assignments[k] IN
               /\ a.course_id = a.from.course
               /\ a.course_name = <<"name", a.from.course>>
               /\ a.course_code = <<"code", a.from.course>>

\* The second course's task ended first; the output holds the assignments
\* of both courses, each with its own course.
C24_Witness ==
    /\ Merged /\ finished = <<2, 1>> /\ ~world.sameId
    /\ Len(allData.assignments) = 4
    /\ \E k \in 1..4 : allData.assignments[k].course_id = 1
    /\ \E k \in 1..4 : allData.assignments[k].course_id = 2

\* ------------------------------------------------------------------ claims about the submissions fetches
\* The endpoint of the submissions of the course of a task, and what the
\* upstream holds there.
SubmissionsOf(t) == Endpoint("grades", t.courseData.course.id, 0)
ExpectedSubmissions(t) ==
    IF Fails(world, SubmissionsOf(t)) THEN <<>> ELSE Listing(world, SubmissionsOf(t))

\* C25: getCourseSubmissions and the per-course submissions fetch of
\* /api/grades never fail: on a failure of the upstream the course is
\* reported with an empty submissions list and no error field, and every
\* other course with the submissions the upstream holds for it.
C25_SubmissionsNeverFail ==
    /\ route = "getCourseSubmissions" =>
           /\ at # "thrown"
           /\ (at = "returned" /\ world.fault.status # 200) =>
                  allData.submissions = ArrayVal(ExpectedSubmissions(tasks[1]))
    /\ route = "grades" =>
           /\ \A i \in 1..Len(tasks) : ~tasks[i].error
           /\ at = "done" =>
                  /\ Len(allData.grades) = Len(courses.items)
                  /\ \A i \in 1..Len(allData.grades) :
                         /\ ~allData.grades[i].error
                         /\ allData.grades[i].course_id = courses.items[i].id
                         /\ allData.grades[i].submissions = ExpectedSubmissions(tasks[i])

\* /api/grades has answered: the submissions of the first course failed
\* with a 500, the second course is reported with its submissions.
C25_Witness ==
    /\ route = "grades" /\ at = "done" /\ res = 200
    /\ world.fault = [section |-> "grades", status |-> 500, courses |-> {1}]
    /\ Len(allData.grades) = 2
    /\ allData.grades[1].submissions = <<>>
    /\ allData.grades[2].submissions # <<>>

\* ------------------------------------------------------------------ claims about retries
\* A failed request of the call is its last one: every request has been
\* answered and the call has ended.
FailureEndsCall ==
    \A k \in 1..Len(served) :
        served[k].type = "error" =>
            /\ k = Len(served)
            /\ fetch.at # "await"
            /\ Len(requests) = Len(served)

\* C26: no retry. Within one fetchAllPages call no request is issued after
\* a request of the call has failed, and the handler requests no endpoint
\* a second time during one request, whether its fetch failed or not.
C26_NoRetry ==
    /\ []FailureEndsCall
    /\ [][\A r \in inflight' \ inflight : r.endpoint \notin sent]_vars

\* The second request of a call has failed and the call has ended with two
\* requests.
C26_Witness ==
    /\ Len(served) = 2 /\ served[1].type = "array" /\ served[2].type = "error"
    /\ Len(requests) = 2 /\ fetch.at = "thrown"

\* ------------------------------------------------------------------ claims about the term filter
Filtered == out.op = "term"
\* The words of the season of a month: January to May spring, June and
\* July summer, August to December fall.
SeasonWords(month) ==
    IF month \in 0..4 THEN {<<"s", "p", "r", "i", "n", "g">>, <<"s", "p">>}
    ELSE IF month \in 5..6 THEN {<<"s", "u", "m", "m", "e", "r">>, <<"s", "u">>}
    ELSE {<<"f", "a", "l", "l">>, <<"f", "a">>}
\* The courses of the input that have a term whose name holds a word of
\* the season.
OfSeason(month) ==
    {i \in 1..Len(arg.courses) :
        /\ arg.courses[i].present
        /\ \E word \in SeasonWords(month) : Contains(arg.courses[i].name, word)}

\* C27: the response holds exactly the courses that have a term whose name
\* matches the pattern of the season of the current month, each once and in
\* the order of the course list; every month selects exactly one of the
\* three patterns; a course without a term is never included.
C27_CurrentTermFilter ==
    Filtered =>
        /\ {out.value[k].id : k \in 1..Len(out.value)} = OfSeason(arg.month)
        /\ \A j, k \in 1..Len(out.value) : j < k => out.value[j].id < out.value[k].id
        /\ \A k \in 1..Len(out.value) : out.value[k].term.present
        /\ Cardinality({p \in {SpringPattern, SummerPattern, FallPattern} :
                            p = CurrentTermPattern(arg.month)}) = 1
        /\ CurrentTermPattern(arg.month) = SeasonWords(arg.month)

\* In May, of a spring course, a course without term and a fall course the
\* spring course alone is kept.
C27_Witness ==
    /\ Filtered /\ arg.month = 4 /\ Len(arg.courses) = 2
    /\ arg.courses[1] = NoTerm
    /\ arg.courses[2].name = <<"S", "P", "2", "5">>
    /\ Len(out.value) = 1 /\ out.value[1].id = 2

\* ------------------------------------------------------------------ claims about the early stop
\* The page received last is an array that is empty or shorter than the
\* per_page of the URL the call was given.
ShortPageReceived == served # <<>> /\ LastServed.type = "array" /\ ShortLast

\* C28: once a page is empty or holds fewer items than the per_page of the
\* URL of the call, the call has returned without a further request, even
\* when the page carries a rel="next" link, and what it returns are the
\* items of all pages received, those of the short page included.
C28_EarlyStop ==
    ShortPageReceived =>
        /\ fetch.at = "returned"
        /\ Len(requests) = Len(served)
        /\ fetch.result = ArrayVal(ConcatBodies(served))

\* A second page of one item, fewer than per_page, carried a next link: the
\* call returned both pages after two requests.
C28_Witness ==
    /\ ShortPageReceived /\ CarriesNext(lastLink)
    /\ Len(served) = 2 /\ Len(requests) = 2
    /\ Len(LastServed.body.items) = 1
    /\ fetch.at = "returned" /\ Len(fetch.result.items) = 3
    /\ fetch.pageCount < call.options.maxPages

\* ------------------------------------------------------------------ claims about the host of the requests
\* C29: every request of a call, those made while following next links
\* included, is a path relative to the configured base URL and goes to the
\* configured host, whatever URL the Link header held.
C29_RequestsToBase ==
    \A i \in 1..Len(requests) :
        /\ requests[i].host = ""
        /\ RequestHost(requests[i]) = BaseHost

\* ------------------------------------------------------------------ claims about the two grade extractions
\* C30: for every course the callback of current-grades and
\* current-term-grades and the callback of the two-stage controller give
\* the same grade and the same grade letter.
C30_SameExtraction ==
    /\ Extracted =>
        /\ out.value.grade = ProcessedCourse(arg).grade
        /\ out.value.grade_letter = ProcessedCourse(arg).grade_letter
    /\ out.op = "processed" =>
        /\ out.value.grade = GradesData(arg).grade
        /\ out.value.grade_letter = GradesData(arg).grade_letter

\* ------------------------------------------------------------------ claims about the answer of a request
AggregationRoutes == {"all-data", "dashboard", "current-assignments", "two-stage-data"}
Responded == res # 0
\* A response, once sent, is not sent again or replaced.
RespondedOnce == Responded => (res' = res /\ reply' = reply)

\* C31: when every upstream call ends, a request to an aggregation handler
\* is answered in the end, on the success path and on every failure path,
\* and it is answered once.
C31_AnsweredOnce ==
    /\ (route \in AggregationRoutes) => <>Responded
    /\ [][RespondedOnce]_vars

\* ------------------------------------------------------------------ claims about formatTime
Formatted == out.op = "format"
\* The units of the text in order, and the number written before a unit
\* (0 when the text has no such part).
Units == [k \in 1..Len(out.value) |-> out.value[k].unit]
Written(unit) ==
    IF \E k \in 1..Len(out.value) : out.value[k].unit = unit
    THEN out.value[CHOOSE k \in 1..Len(out.value) : out.value[k].unit = unit].n
    ELSE 0

\* C36: the text of a duration of ms milliseconds holds h, m and s with
\* m < 60, s < 60 and h*3600 + m*60 + s equal to the whole seconds of ms; the
\* hours part is written only when h > 0 and the minutes part only when
\* h > 0 or m > 0; the seconds part is always written.
C36_FormatTime ==
    Formatted =>
        LET h == Written("h")
            m == Written("m")
            s == Written("s")
        IN
        /\ m < 60 /\ s < 60
        /\ (h * 3600) + (m * 60) + s = arg.ms \div 1000
        /\ Units = IF h > 0 THEN <<"h", "m", "s">>
                   ELSE IF m > 0 THEN <<"m", "s">>
                   ELSE <<"s">>

\* 90000 ms are written as 1m 30s.
C36_Witness ==
    /\ Formatted /\ arg.ms = 90000
    /\ out.value = <<Part(1, "m"), Part(30, "s")>>

\* ------------------------------------------------------------------ claims about a failure after the first page
\* The request of a page after the first has been answered, the pages
\* before it having given items.
LaterPage == Len(served) >= 2 /\ fetch.allData # <<>>
\* What a failed request makes of the call.
FailureOutcome ==
    IF call.options.silentErrors
    THEN fetch.at = "returned" /\ fetch.result = ArrayVal(<<>>)
    ELSE IF LastServed.status = 403
    THEN fetch.at = "returned" /\ fetch.result = PermissionDenied
    ELSE fetch.at = "thrown" /\ fetch.result = NoValue

\* C33: when the request of a page after the first fails, the call gives
\* none of the items of the earlier pages: it returns the empty sequence
\* (silentErrors), the permission-denied marker (403 without silentErrors)
\* or raises the failure; when the body of a page after the first is no
\* array, that body alone is returned.
C33_LaterFailureDropsPages ==
    LaterPage =>
        /\ LastServed.type = "error" => (FailureOutcome /\ fetch.result.items = <<>>)
        /\ LastServed.type = "object" =>
               /\ fetch.at = "returned"
               /\ fetch.result = LastServed.body
               /\ fetch.result.items = <<>>

\* The second request failed with a 500 under silentErrors after a first
\* page of two items: the empty sequence is returned.
C33_Witness ==
    /\ LaterPage /\ Len(served) = 2 /\ Len(fetch.allData) = 2
    /\ call.options.silentErrors
    /\ LastServed.type = "error" /\ LastServed.status = 500
    /\ fetch.at = "returned" /\ fetch.result = ArrayVal(<<>>)

\* ------------------------------------------------------------------ claims about the two stages
TwoStage == route = "two-stage-data"
\* The requests of the handler itself that are still in flight.
OwnInFlight == inflight \ OfTasks(inflight)
\* The first stage has finished: the course list and then the
\* announcements were requested and both requests have ended.
StageOneFinished ==
    /\ Top("courses") \in sent /\ Top("announcements") \in sent
    /\ OwnInFlight = {}
\* The course list was fetched and no Spring 2025 course is left.
NoSpringCourses ==
    /\ TwoStage /\ at \notin {"start", "courses"} /\ res # 500
    /\ courses.items = <<>>
\* The entry of the i-th course in courseAssignments.
EntryOf(i) == allData.courseAssignments[i]

\* C34: in two-stage-data the requests of the second stage are issued only
\* after the first stage (course list, then announcements) has finished;
\* with no Spring 2025 course the handler answers 'complete' with empty
\* courses, announcements and assignments and the error 'No Spring 2025
\* courses found', having requested the course list alone; a course whose
\* fetch fails in the second stage gets an entry with an error and without
\* assignments, the entries of the other courses being what their own
\* fetches returned.
C34_TwoStages ==
    /\ [](TwoStage =>
            /\ Top("announcements") \in sent =>
                   (Top("courses") \in sent /\ Req(0, Top("courses")) \notin inflight)
            /\ PerCourseSent # {} => StageOneFinished)
    /\ [][(TwoStage /\ \E e \in Issued : e.course # 0) => StageOneFinished']_vars
    /\ [](NoSpringCourses =>
            /\ at = "done" /\ res = 200 /\ reply = NoCoursesReply
            /\ allData = NewTwoStageData
            /\ sent = {Top("courses")})
    /\ [](TwoStageJoined =>
            /\ Len(allData.courseAssignments) = Len(courses.items)
            /\ \A i \in 1..Len(courses.items) :
                   /\ EntryOf(i).course_id = courses.items[i].id
                   /\ EntryOf(i).assignments = ReturnedFor(i)
                   /\ EntryOf(i).error =
                          Fails(world, Endpoint("assignments", courses.items[i].id, 0))
                   /\ EntryOf(i).error => EntryOf(i).assignments = <<>>)

\* Of two Spring 2025 courses the fetch of the first failed: its entry
\* holds the error, the entry of the second its two assignments.
C34_Witness ==
    /\ TwoStageJoined /\ Len(courses.items) = 2
    /\ EntryOf(1).error /\ EntryOf(1).assignments = <<>>
    /\ ~EntryOf(2).error /\ Len(EntryOf(2).assignments) = 2

\* ------------------------------------------------------------------ claims about byCourseDuration
\* The fan-out of dashboard or current-assignments has been joined.
FanOutJoined == Timed /\ tasks # <<>> /\ at # "fanout"
CourseIds == {courses.items[i].id : i \in 1..Len(courses.items)}
DistinctIds == Cardinality(CourseIds) = Len(courses.items)
\* The number of assignments of the response that come from course id.
Contributed(id) ==
    Cardinality({k \in 1..Len(allData.assignments) : allData.assignments[k].course_id = id})
RECURSIVE SumOfCounts(_)
SumOfCounts(ids) ==
    IF ids = {} THEN 0
    ELSE LET id == CHOOSE x \in ids : TRUE IN
         allData.byCourseDuration[id].assignmentCount + SumOfCounts(ids \ {id})

\* C35: after the join of the fan-out of dashboard and current-assignments
\* byCourseDuration holds one entry for each course of the list (the ids
\* being distinct) and no other: for a course whose fetch succeeded a
\* duration >= 0 and the number of assignments the course contributes to
\* the response, for a course whose fetch failed an error and the course
\* contributes nothing; the assignments of the response are as many as the
\* entries count together.
C35_ByCourseDuration ==
    (FanOutJoined /\ DistinctIds) =>
        /\ DOMAIN allData.byCourseDuration = CourseIds
        /\ \A id \in CourseIds :
               LET entry == allData.byCourseDuration[id] IN
               IF Fails(world, Endpoint("assignments", id, 0))
               THEN entry.has = {"error"} /\ Contributed(id) = 0
               ELSE /\ entry.has = {"duration", "assignmentCount"}
                    /\ entry.duration >= 0
                    /\ entry.assignmentCount = Contributed(id)
        /\ Len(allData.assignments) = SumOfCounts(CourseIds)

\* Of two courses the fetch of the second failed; the first took some
\* time and contributes its two assignments.
C35_Witness ==
    /\ FanOutJoined /\ DistinctIds /\ Len(courses.items) = 2
    /\ allData.byCourseDuration[1].duration > 0
    /\ allData.byCourseDuration[1].assignmentCount = 2
    /\ allData.byCourseDuration[2].has = {"error"}
    /\ Len(allData.assignments) = 2

\* ------------------------------------------------------------------ claims about concurrent calls and requests
\* What a call has ended in, and what the same call ends in when it runs
\* alone against the same answers of the upstream.
Outcome(f) == [at |-> f.at, result |-> f.result]
Alone(c) == Outcome(FetchAllPages(c.url, c.options, c.script))
CallEnded(f) == f.at \in {"returned", "thrown"}
TwoCalls == parked.kind = "call"
TwoRequests == parked.kind = "request"

====
